---- MODULE Spec2Model ----
(***************************************************************************)
(* A model of the inventory pipeline of arc_raiders_items:                 *)
(*   findKnownItems (src/logic/findItems.ts)  text  -> RawItem[]           *)
(*   classifyItems  (src/logic/classify.ts)   RawItem[] -> ClassifiedItem[]*)
(* of the string measures levenshtein and getSimilarity                    *)
(* (src/logic/stringUtils.ts), and of the slot segmenters findItemBlobs    *)
(* and detectInventorySlots (src/logic/blobDetector.ts and its variants),   *)
(* with their dilation and union-find, of the strict recognizer            *)
(* parseInventory, and of the vision worker (src/worker.ts) with the hook  *)
(* that starts it (src/hooks/useAiVision.ts).                              *)
(* A JavaScript string is modelled as a sequence of one-character strings, *)
(* an optional number (defaultKeepMin) as a set with at most one element.  *)
(***************************************************************************)
EXTENDS Integers, Sequences, FiniteSets, TLC

VARIABLES
  ITEMS_DB,      \* the catalog: item name -> ItemMetadata
  rawItems,      \* the argument of the last classifyItems call
  classified,    \* what the last classifyItems call returned
  calls,         \* how many classifyItems calls have returned
  text,          \* the recognized text the App holds
  foundItems,    \* what findKnownItems returned for text
  stage,         \* "text": text is set; "analyzed": the App has analyzed it;
                 \* "strings", "measured", "image" or a segmenter's name
                 \* in the specifications of the other components
  strings,       \* the arguments a and b of levenshtein and getSimilarity
  distance,      \* what levenshtein(a, b) returned
  similarity,    \* what getSimilarity(a, b) returned
  imageData,     \* the ImageData handed to a segmenter
  thresholdArg,  \* the threshold argument handed to a segmenter
  regions,       \* the Rect[] the segmenter returned
  locals,        \* the segmenter's local variables when it returned
  maskArg,       \* the binary mask handed to dilate or to the labeling
  radiusArg,     \* the radius handed to dilate
  dilated,       \* what dilate returned
  ufParent,      \* the parent array of the union-find structure
  lastCall,      \* the last union or find call and what it returned
  instance,      \* VisionPipeline.instance of the worker
  pipelines,     \* how many pipelines the worker has constructed
  inbox,         \* messages posted to the worker, not yet dispatched
  tasks,         \* the calls of self.onmessage that are awaiting
  outbox,        \* messages the worker posted, not yet delivered
  status,        \* the status state of useAiVision
  workerRef,     \* workerRef.current: "null", "worker" or "terminated"
  readers,       \* the ids of the files a FileReader is still loading
  analyses       \* how many times analyzeImage has been called

pipelineVars == <<ITEMS_DB, rawItems, classified, calls, text, foundItems>>

measureVars == <<strings, distance, similarity>>

segmenterVars == <<imageData, thresholdArg, regions, locals>>

kernelVars == <<maskArg, radiusArg, dilated, ufParent, lastCall>>

workerVars ==
  <<instance, pipelines, inbox, tasks, outbox, status, workerRef, readers,
    analyses>>

vars ==
  <<pipelineVars, stage, measureVars, segmenterVars, kernelVars, workerVars>>

\* Nothing has been measured.
NoMeasure ==
  /\ strings = [a |-> <<>>, b |-> <<>>]
  /\ distance = 0
  /\ similarity = [num |-> 1, den |-> 1]

\* No image has been handed over.
NoImage ==
  /\ imageData = [width |-> 0, height |-> 0, data |-> <<>>]
  /\ thresholdArg = 0
  /\ regions = <<>>
  /\ locals = <<>>

\* No mask has been handed over and no union-find structure built.
NoKernel ==
  /\ maskArg = [width |-> 0, height |-> 0, data |-> <<>>]
  /\ radiusArg = 0
  /\ dilated = <<>>
  /\ ufParent = <<>>
  /\ lastCall = <<>>

\* The hook is not mounted and there is no worker.
NoWorker ==
  /\ instance = "null"
  /\ pipelines = 0
  /\ inbox = <<>>
  /\ tasks = <<>>
  /\ outbox = <<>>
  /\ status = "idle"
  /\ workerRef = "null"
  /\ readers = {}
  /\ analyses = 0

\* The pipeline holds nothing.
NoText ==
  /\ rawItems = <<>>
  /\ classified = <<>>
  /\ calls = 0
  /\ text = <<>>
  /\ foundItems = <<>>

(***************************************************************************)
(* Bounds of the model.                                                    *)
(***************************************************************************)
MaxKeepMin == 1
MaxQty == 2
MaxCalls == 2
MaxTypos == 5
MaxStringLen == 4
MaxPixels == 9
SlotSide == 9
MaxGap == 12
MaxRadius == 3
MaxElements == 4
MaxSquares == 3

(***************************************************************************)
(* The catalog, src/data/items.ts.                                         *)
(***************************************************************************)
Meta(n, c, q, w, cr, sv, k) ==
  [name |-> n, category |-> c, usedForQuests |-> q, usedForWorkshop |-> w,
   usedForCrafting |-> cr, usedForSpecialVendor |-> sv, defaultKeepMin |-> k]

ShippedItems ==
  { Meta("Assorted Seeds", "material", TRUE, FALSE, FALSE, FALSE, {50}),
    Meta("Rusted Medical Kit", "consumable", FALSE, FALSE, FALSE, FALSE, {10}),
    Meta("Old Currency", "misc", FALSE, FALSE, FALSE, FALSE, {0}),
    Meta("Drug Production Kit", "material", TRUE, FALSE, FALSE, FALSE, {5}),
    Meta("Memory Chip", "material", TRUE, FALSE, FALSE, FALSE, {10}),
    Meta("Standard Ammo", "ammo", FALSE, FALSE, FALSE, FALSE, {500}),
    Meta("High-Caliber Ammo", "ammo", FALSE, FALSE, FALSE, FALSE, {200}),
    Meta("Energy Cell", "ammo", FALSE, FALSE, FALSE, FALSE, {100}),
    Meta("Scrap Metal", "material", FALSE, FALSE, TRUE, FALSE, {100}),
    Meta("Electronic Parts", "material", FALSE, TRUE, FALSE, FALSE, {20}),
    Meta("Synthetic Fabric", "material", FALSE, FALSE, TRUE, FALSE, {50}),
    Meta("Plastic Polymer", "material", FALSE, FALSE, TRUE, FALSE, {50}),
    Meta("Chemical Compound", "material", FALSE, FALSE, TRUE, FALSE, {30}),
    Meta("Canned Food", "consumable", FALSE, FALSE, FALSE, FALSE, {10}),
    Meta("Clean Water", "consumable", FALSE, FALSE, FALSE, FALSE, {10}),
    Meta("Painkillers", "consumable", FALSE, FALSE, FALSE, FALSE, {5}),
    Meta("Gold Watch", "misc", FALSE, FALSE, FALSE, FALSE, {0}),
    Meta("Silver Locket", "misc", FALSE, FALSE, FALSE, FALSE, {0}) }

ShippedNames == { e.name : e \in ShippedItems }

ShippedDB == [ n \in ShippedNames |-> CHOOSE e \in ShippedItems : e.name = n ]

(***************************************************************************)
(* The inputs the model draws: ItemMetadata as the classifier reads it     *)
(* (four optional flags, a category, an optional defaultKeepMin) and the   *)
(* catalogs obtained from the shipped one by replacing one entry.          *)
(***************************************************************************)
Categories == {"ammo", "material", "consumable", "misc"}

FlagSets == { <<FALSE, FALSE, FALSE, FALSE>>, <<TRUE, FALSE, FALSE, FALSE>>,
              <<FALSE, TRUE, FALSE, FALSE>>, <<FALSE, FALSE, TRUE, FALSE>>,
              <<FALSE, FALSE, FALSE, TRUE>> }

KeepMins == { {} } \cup { {k} : k \in 0..MaxKeepMin }

ProbeName == "Scrap Metal"

ItemMetadata ==
  { Meta(ProbeName, c, f[1], f[2], f[3], f[4], k) :
      c \in Categories, f \in FlagSets, k \in KeepMins }

Catalogs ==
  {ShippedDB} \cup { [ShippedDB EXCEPT ![ProbeName] = e] : e \in ItemMetadata }

\* Property names every JavaScript object inherits from Object.prototype.
ObjectPrototypeKeys == {"toString", "constructor", "__proto__"}

ItemNames == {ProbeName, "Unlisted Thing", "toString"}

Quantities == (0..MaxQty) \cup {21}

RawItem == [name : ItemNames, qty : Quantities]

(***************************************************************************)
(* classifyItems, src/logic/classify.ts.                                   *)
(***************************************************************************)
undefined == [name |-> "undefined"]

\* What dbItem is for a name that is no own key of the catalog but a member
\* of Object.prototype: a truthy object none of whose metadata fields exist.
PrototypeMember(n) == Meta(n, "undefined", FALSE, FALSE, FALSE, FALSE, {})

\* ITEMS_DB[item.name]: a property read, which walks the prototype chain.
Lookup(db, n) ==
  IF n \in DOMAIN db THEN db[n]
  ELSE IF n \in ObjectPrototypeKeys THEN PrototypeMember(n)
  ELSE undefined

\* v || d on an optional number: d when v is undefined or 0.
OrElse(v, d) == IF v = {} \/ v = {0} THEN d ELSE CHOOSE x \in v : TRUE

\* v ?? d on an optional number: d only when v is undefined.
Nullish(v, d) == IF v = {} THEN d ELSE CHOOSE x \in v : TRUE

isEssential(dbItem) ==
  \/ dbItem.usedForQuests
  \/ dbItem.usedForWorkshop
  \/ dbItem.usedForCrafting
  \/ dbItem.usedForSpecialVendor

minKeep(dbItem) == OrElse(dbItem.defaultKeepMin, 1)

baseMin(dbItem) == OrElse(dbItem.defaultKeepMin, 10)

recycleThreshold(dbItem) == baseMin(dbItem) * 2

\* defaultMin written with || as the two rules above it are.
defaultMinOrElse(dbItem) == OrElse(dbItem.defaultKeepMin, 1)

defaultMin(dbItem) == Nullish(dbItem.defaultKeepMin, 1)

Result(item, a, r, c) ==
  [name |-> item.name, qty |-> item.qty, action |-> a, reason |-> r,
   category |-> c]

\* ClassifyKnown with the supply rule (3) tested before the essential rule (2).
ClassifyKnownSupplyFirst(item, dbItem) ==
  IF dbItem.category = "ammo" \/ dbItem.category = "material"
  THEN IF item.qty > recycleThreshold(dbItem)
       THEN Result(item, "RECYCLE",
                   <<"Excessive amount", recycleThreshold(dbItem)>>,
                   dbItem.category)
       ELSE Result(item, "KEEP", <<"Standard supply">>, dbItem.category)
  ELSE IF isEssential(dbItem)
  THEN IF item.qty <= minKeep(dbItem)
       THEN Result(item, "KEEP",
                   <<"Essential material (Hold at least", minKeep(dbItem)>>,
                   dbItem.category)
       ELSE Result(item, "MAYBE",
                   <<"Have enough, maybe sell excess?", minKeep(dbItem)>>,
                   dbItem.category)
  ELSE IF item.qty > defaultMin(dbItem)
       THEN Result(item, "MAYBE", <<"Above reserve", defaultMin(dbItem)>>,
                   dbItem.category)
       ELSE Result(item, "KEEP", <<"Reserve stock">>, dbItem.category)

ClassifyKnown(item, dbItem) ==
  IF isEssential(dbItem)
  THEN IF item.qty <= minKeep(dbItem)
       THEN Result(item, "KEEP",
                   <<"Essential material (Hold at least", minKeep(dbItem)>>,
                   dbItem.category)
       ELSE Result(item, "MAYBE",
                   <<"Have enough, maybe sell excess?", minKeep(dbItem)>>,
                   dbItem.category)
  ELSE IF dbItem.category = "ammo" \/ dbItem.category = "material"
  THEN IF item.qty > recycleThreshold(dbItem)
       THEN Result(item, "RECYCLE",
                   <<"Excessive amount", recycleThreshold(dbItem)>>,
                   dbItem.category)
       ELSE Result(item, "KEEP", <<"Standard supply">>, dbItem.category)
  ELSE IF item.qty > defaultMin(dbItem)
       THEN Result(item, "MAYBE", <<"Above reserve", defaultMin(dbItem)>>,
                   dbItem.category)
       ELSE Result(item, "KEEP", <<"Reserve stock">>, dbItem.category)

\* ClassifyItem with a module-level counter leaking into the result.
ClassifyItemCounting(item) ==
  LET dbItem == Lookup(ITEMS_DB, item.name)
      r == IF dbItem = undefined
           THEN Result(item, "KEEP", <<"Unknown item: Keep just in case">>,
                       "unknown")
           ELSE ClassifyKnown(item, dbItem)
  IN  IF calls > 0 /\ r.action = "MAYBE"
      THEN [r EXCEPT !.action = "KEEP"] ELSE r

ClassifyItem(item) ==
  LET dbItem == Lookup(ITEMS_DB, item.name)
  IN  IF dbItem = undefined
      THEN Result(item, "KEEP", <<"Unknown item: Keep just in case">>,
                  "unknown")
      ELSE ClassifyKnown(item, dbItem)

\* classifyItems dropping the items it has no catalog entry for.
classifyItemsKnownOnly(items) ==
  LET known == SelectSeq(items, LAMBDA it : Lookup(ITEMS_DB, it.name) # undefined)
  IN  [ i \in 1..Len(known) |-> ClassifyItem(known[i]) ]

classifyItems(items) == [ i \in 1..Len(items) |-> ClassifyItem(items[i]) ]

\* The lists the caller passes next: the same list again, the list with one
\* more item, the list without its first item.
NextInputs(items) ==
  {items} \cup { Append(items, it) : it \in RawItem }
          \cup (IF items = <<>> THEN {} ELSE {Tail(items)})

Classify ==
  /\ calls < MaxCalls
  /\ \E items \in NextInputs(rawItems) :
       /\ rawItems' = items
       /\ classified' = classifyItems(items)
  /\ calls' = calls + 1
  /\ UNCHANGED <<ITEMS_DB, text, foundItems, stage, measureVars, segmenterVars,
                 kernelVars, workerVars>>

InitClassify ==
  /\ ITEMS_DB \in Catalogs
  /\ rawItems = <<>>
  /\ classified = <<>>
  /\ calls = 0
  /\ text = <<>>
  /\ foundItems = <<>>
  /\ stage = "analyzed"
  /\ NoMeasure
  /\ NoImage
  /\ NoKernel
  /\ NoWorker

NextClassify == Classify

SpecClassify == InitClassify /\ [][NextClassify]_vars

(***************************************************************************)
(* Claims about classifyItems, checked under SpecClassify.                 *)
(***************************************************************************)
Positions == DOMAIN classified

\* The catalog entry's defaultKeepMin when it is set, d when it is unset.
SetOrDefault(e, d) ==
  IF e.defaultKeepMin = {} THEN d ELSE CHOOSE x \in e.defaultKeepMin : TRUE

InCatalog(i) == rawItems[i].name \in DOMAIN ITEMS_DB

Entry(i) == ITEMS_DB[rawItems[i].name]

\* C1: every item whose name is not a key of the catalog is classified KEEP
\* with category "unknown", whatever the name and the quantity.
C1_UnknownIsKept ==
  \A i \in Positions :
    ~InCatalog(i) =>
      classified[i].action = "KEEP" /\ classified[i].category = "unknown"

\* C2: for an essential catalog entry, m is defaultKeepMin whenever it is set
\* (0 included) and 1 only when it is unset; KEEP when quantity <= m, MAYBE
\* when quantity > m.
C2_EssentialUsesKeepMin ==
  \A i \in Positions :
    (InCatalog(i) /\ isEssential(Entry(i))) =>
      classified[i].action =
        IF rawItems[i].qty <= SetOrDefault(Entry(i), 1) THEN "KEEP" ELSE "MAYBE"

\* C3: for a non-essential entry of category ammo or material, m is
\* defaultKeepMin whenever it is set (0 included) and 10 only when it is
\* unset; RECYCLE when quantity > 2*m, KEEP otherwise.
C3_SupplyUsesKeepMin ==
  \A i \in Positions :
    (InCatalog(i) /\ ~isEssential(Entry(i))
       /\ Entry(i).category \in {"ammo", "material"}) =>
      classified[i].action =
        IF rawItems[i].qty > 2 * SetOrDefault(Entry(i), 10)
        THEN "RECYCLE" ELSE "KEEP"

OtherEntry(i) ==
  /\ InCatalog(i)
  /\ ~isEssential(Entry(i))
  /\ Entry(i).category \notin {"ammo", "material"}

\* C4: for a non-essential entry of any other category, m is defaultKeepMin
\* (1 when unset, the explicit value otherwise, 0 included); MAYBE when
\* quantity > m, KEEP otherwise.
C4_OtherUsesKeepMin ==
  \A i \in Positions :
    OtherEntry(i) =>
      classified[i].action =
        IF rawItems[i].qty > SetOrDefault(Entry(i), 1) THEN "MAYBE" ELSE "KEEP"

\* An entry with defaultKeepMin 0 and one with it unset have both been
\* classified under rule 4, with quantity 1: MAYBE for the first, KEEP for
\* the second.
C4_Witness ==
  \E i \in Positions :
    /\ OtherEntry(i)
    /\ Entry(i).defaultKeepMin = {0}
    /\ rawItems[i].qty = 1
    /\ classified[i].action = "MAYBE"

\* C5: classifyItems is total: the output has the input's length and order,
\* the i-th output carries the i-th input's name and quantity and exactly one
\* action among KEEP, MAYBE, RECYCLE.
C5_TotalSameShape ==
  /\ Len(classified) = Len(rawItems)
  /\ \A i \in 1..Len(rawItems) :
       /\ classified[i].name = rawItems[i].name
       /\ classified[i].qty = rawItems[i].qty
       /\ classified[i].action \in {"KEEP", "MAYBE", "RECYCLE"}

\* A two-item call whose first item has no catalog entry and whose second
\* item is recycled.
C5_Witness ==
  /\ Len(rawItems) = 2
  /\ Len(classified) = 2
  /\ Lookup(ITEMS_DB, rawItems[1].name) = undefined
  /\ classified[2].action = "RECYCLE"
  /\ rawItems[1] # rawItems[2]

SameItem(a, b) == a.name = b.name /\ a.qty = b.qty

C28_RecycleOnlySupply ==
  \A i \in Positions :
    classified[i].action = "RECYCLE" =>
      /\ InCatalog(i)
      /\ ~isEssential(Entry(i))
      /\ Entry(i).category \in {"ammo", "material"}

\* One call has classified 21 pieces of an essential material, which is not
\* recycled, and in an earlier or later position 21 pieces of a name that
\* the catalog does not hold, which is not recycled either.
C28_Witness ==
  \E i \in Positions, j \in Positions :
    /\ InCatalog(i)
    /\ isEssential(Entry(i))
    /\ Entry(i).category = "material"
    /\ rawItems[i].qty = 21
    /\ classified[i].action = "MAYBE"
    /\ ~InCatalog(j)
    /\ rawItems[j].qty = 21
    /\ classified[j].action # "RECYCLE"

(***************************************************************************)
(* JavaScript strings: sequences of one-character strings.                 *)
(***************************************************************************)
\* The characters of each catalog name.
CharsOf ==
  "Assorted Seeds" :>
    <<"A","s","s","o","r","t","e","d"," ","S","e","e","d","s">> @@
  "Rusted Medical Kit" :>
    <<"R","u","s","t","e","d"," ","M","e","d","i","c","a","l"," ","K","i","t">> @@
  "Old Currency" :>
    <<"O","l","d"," ","C","u","r","r","e","n","c","y">> @@
  "Drug Production Kit" :>
    <<"D","r","u","g"," ","P","r","o","d","u","c","t","i","o","n"," ","K","i","t">> @@
  "Memory Chip" :>
    <<"M","e","m","o","r","y"," ","C","h","i","p">> @@
  "Standard Ammo" :>
    <<"S","t","a","n","d","a","r","d"," ","A","m","m","o">> @@
  "High-Caliber Ammo" :>
    <<"H","i","g","h","-","C","a","l","i","b","e","r"," ","A","m","m","o">> @@
  "Energy Cell" :>
    <<"E","n","e","r","g","y"," ","C","e","l","l">> @@
  "Scrap Metal" :>
    <<"S","c","r","a","p"," ","M","e","t","a","l">> @@
  "Electronic Parts" :>
    <<"E","l","e","c","t","r","o","n","i","c"," ","P","a","r","t","s">> @@
  "Synthetic Fabric" :>
    <<"S","y","n","t","h","e","t","i","c"," ","F","a","b","r","i","c">> @@
  "Plastic Polymer" :>
    <<"P","l","a","s","t","i","c"," ","P","o","l","y","m","e","r">> @@
  "Chemical Compound" :>
    <<"C","h","e","m","i","c","a","l"," ","C","o","m","p","o","u","n","d">> @@
  "Canned Food" :>
    <<"C","a","n","n","e","d"," ","F","o","o","d">> @@
  "Clean Water" :>
    <<"C","l","e","a","n"," ","W","a","t","e","r">> @@
  "Painkillers" :>
    <<"P","a","i","n","k","i","l","l","e","r","s">> @@
  "Gold Watch" :>
    <<"G","o","l","d"," ","W","a","t","c","h">> @@
  "Silver Locket" :>
    <<"S","i","l","v","e","r"," ","L","o","c","k","e","t">>

\* Object.values(ITEMS_DB) keeps the order the keys were written in.
KeyOrder ==
  << "Assorted Seeds",
     "Rusted Medical Kit",
     "Old Currency",
     "Drug Production Kit",
     "Memory Chip",
     "Standard Ammo",
     "High-Caliber Ammo",
     "Energy Cell",
     "Scrap Metal",
     "Electronic Parts",
     "Synthetic Fabric",
     "Plastic Polymer",
     "Chemical Compound",
     "Canned Food",
     "Clean Water",
     "Painkillers",
     "Gold Watch",
     "Silver Locket" >>

LowerCaseOf ==
  "A" :> "a" @@ "B" :> "b" @@ "C" :> "c" @@ "D" :> "d" @@ "E" :> "e" @@
  "F" :> "f" @@ "G" :> "g" @@ "H" :> "h" @@ "I" :> "i" @@ "J" :> "j" @@
  "K" :> "k" @@ "L" :> "l" @@ "M" :> "m" @@ "N" :> "n" @@ "O" :> "o" @@
  "P" :> "p" @@ "Q" :> "q" @@ "R" :> "r" @@ "S" :> "s" @@ "T" :> "t" @@
  "U" :> "u" @@ "V" :> "v" @@ "W" :> "w" @@ "X" :> "x" @@ "Y" :> "y" @@
  "Z" :> "z"

toLowerChar(c) == IF c \in DOMAIN LowerCaseOf THEN LowerCaseOf[c] ELSE c

toLowerCase(s) == [ i \in 1..Len(s) |-> toLowerChar(s[i]) ]

Digits == {"0", "1", "2", "3", "4", "5", "6", "7", "8", "9"}

\* What \s and trim() take for white space, among the characters of a line.
WhiteSpace == {" ", "\t", "\r"}

RECURSIVE trimStart(_)
trimStart(s) ==
  IF s # <<>> /\ Head(s) \in WhiteSpace THEN trimStart(Tail(s)) ELSE s

RECURSIVE trimEnd(_)
trimEnd(s) ==
  IF s # <<>> /\ s[Len(s)] \in WhiteSpace
  THEN trimEnd(SubSeq(s, 1, Len(s) - 1)) ELSE s

trim(s) == trimEnd(trimStart(s))

\* s.split(sep) for a one-character separator: always at least one piece.
RECURSIVE splitFrom(_, _, _, _)
splitFrom(s, sep, i, piece) ==
  IF i > Len(s) THEN <<piece>>
  ELSE IF s[i] = sep THEN <<piece>> \o splitFrom(s, sep, i + 1, <<>>)
  ELSE splitFrom(s, sep, i + 1, Append(piece, s[i]))

split(s, sep) == splitFrom(s, sep, 1, <<>>)

\* parts.join(' ')
RECURSIVE join(_)
join(parts) ==
  IF parts = <<>> THEN <<>>
  ELSE IF Len(parts) = 1 THEN parts[1]
  ELSE parts[1] \o <<" ">> \o join(Tail(parts))

(***************************************************************************)
(* levenshtein and getSimilarity, src/logic/stringUtils.ts.                *)
(***************************************************************************)
Min2(x, y) == IF x <= y THEN x ELSE y

Max2(x, y) == IF x >= y THEN x ELSE y

\* matrixRow whose substitution costs as much as a deletion and an insertion.
RECURSIVE matrixRowIndel(_, _, _, _, _)
matrixRowIndel(prev, i, a, b, row) ==
  IF Len(row) = Len(a) + 1 THEN row
  ELSE LET j == Len(row)
           cell == IF b[i] = a[j]
                   THEN prev[j]
                   ELSE Min2(prev[j] + 2, Min2(row[j] + 1, prev[j + 1] + 1))
       IN  matrixRowIndel(prev, i, a, b, Append(row, cell))

\* matrixRow without the insertion term matrix[i][j - 1] + 1.
RECURSIVE matrixRowNoInsertion(_, _, _, _, _)
matrixRowNoInsertion(prev, i, a, b, row) ==
  IF Len(row) = Len(a) + 1 THEN row
  ELSE LET j == Len(row)
           cell == IF b[i] = a[j]
                   THEN prev[j]
                   ELSE Min2(prev[j] + 1, prev[j + 1] + 1)
       IN  matrixRowNoInsertion(prev, i, a, b, Append(row, cell))

\* Row i of the matrix from row i-1 (prev), cell by cell; a row holds
\* matrix[i][0..a.length] at indices 1..Len(a)+1.
RECURSIVE matrixRow(_, _, _, _, _)
matrixRow(prev, i, a, b, row) ==
  IF Len(row) = Len(a) + 1 THEN row
  ELSE LET j == Len(row)
           cell == IF b[i] = a[j]
                   THEN prev[j]
                   ELSE Min2(prev[j] + 1, Min2(row[j] + 1, prev[j + 1] + 1))
       IN  matrixRow(prev, i, a, b, Append(row, cell))

\* Rows 1..b.length in turn; the result is matrix[b.length][a.length].  The
\* singleton set binds row i as a computed value before row i+1 starts, the
\* order in which the code fills the matrix.
RECURSIVE matrixFrom(_, _, _, _)
matrixFrom(prev, i, a, b) ==
  IF i > Len(b) THEN prev[Len(a) + 1]
  ELSE CHOOSE d \in { matrixFrom(row, i + 1, a, b) :
                        row \in {matrixRow(prev, i, a, b, <<i>>)} } : TRUE

levenshtein(a, b) ==
  matrixFrom([ k \in 1..Len(a) + 1 |-> k - 1 ], 1, a, b)

\* A similarity is kept as the exact fraction num / den: the quotients the
\* code compares have denominators of at most a line's length, so comparing
\* the doubles and comparing the fractions agree.
Fraction(n, d) == [num |-> n, den |-> d]

\* getSimilarity without its test for two empty strings.
getSimilarityUnguarded(s1, s2) ==
  LET longer == IF Len(s1) > Len(s2) THEN s1 ELSE s2
  IN  Fraction(Len(longer) - levenshtein(s1, s2), Len(longer))

getSimilarity(s1, s2) ==
  LET longer == IF Len(s1) > Len(s2) THEN s1 ELSE s2
  IN  IF Len(longer) = 0 THEN Fraction(1, 1)
      ELSE Fraction(Len(longer) - levenshtein(s1, s2), Len(longer))

Greater(x, y) == x.num * y.den > y.num * x.den

(***************************************************************************)
(* findKnownItems, src/logic/findItems.ts.                                 *)
(***************************************************************************)
null == [name |-> "null"]

\* Object.values(ITEMS_DB)
dbItems(db) == [ k \in 1..Len(KeyOrder) |-> db[KeyOrder[k]] ]

nameParts(dbItem) == split(CharsOf[dbItem.name], " ")

windowSize(dbItem) == Len(nameParts(dbItem))

\* words.slice(i, i + windowSize).join(' '), i counted from 0
targetPhrase(words, i, size) == join(SubSeq(words, i + 1, i + size))

score(dbItem, words, i) ==
  getSimilarity(toLowerCase(CharsOf[dbItem.name]),
                toLowerCase(targetPhrase(words, i, windowSize(dbItem))))

Best(item, s) == [bestMatchItem |-> item, bestScore |-> s]

\* if (score > bestScore) { bestScore = score; bestMatchItem = dbItem; }
betterOf(best, dbItem, s) ==
  IF Greater(s, best.bestScore) THEN Best(dbItem, s) ELSE best

\* The inner loop: every window position i of one catalog entry.
RECURSIVE scanWindows(_, _, _, _)
scanWindows(best, dbItem, words, i) ==
  IF i > Len(words) - windowSize(dbItem) THEN best
  ELSE CHOOSE r \in { scanWindows(b, dbItem, words, i + 1) :
                        b \in {betterOf(best, dbItem, score(dbItem, words, i))} } :
         TRUE

\* The outer loop: every catalog entry, in Object.values order.
RECURSIVE scanItems(_, _, _, _)
scanItems(best, items, words, k) ==
  IF k > Len(items) THEN best
  ELSE CHOOSE r \in { scanItems(b, items, words, k + 1) :
                        b \in { IF Len(words) < windowSize(items[k]) THEN best
                                ELSE scanWindows(best, items[k], words, 0) } } :
         TRUE

bestMatch(db, cleanLine) ==
  scanItems(Best(null, Fraction(0, 1)), dbItems(db), split(cleanLine, " "), 1)

\* The threshold the comment of findKnownItems speaks of, 0.6.
thresholdSixty == Fraction(60, 100)

\* The acceptance threshold 0.55.
threshold == Fraction(55, 100)

\* The digits of s from position p on, as far as they go.
RECURSIVE digitRun(_, _)
digitRun(s, p) ==
  IF p <= Len(s) /\ s[p] \in Digits THEN <<s[p]>> \o digitRun(s, p + 1)
  ELSE <<>>

RECURSIVE skipSpace(_, _)
skipSpace(s, p) ==
  IF p <= Len(s) /\ s[p] \in WhiteSpace THEN skipSpace(s, p + 1) ELSE p

\* /(\d)\s*$/ : the pattern without its +, which captures the last digit only.
RECURSIVE matchTrailingOneDigit(_, _)
matchTrailingOneDigit(s, p) ==
  IF p > Len(s) THEN <<>>
  ELSE IF s[p] \in Digits /\ skipSpace(s, p + 1) > Len(s) THEN <<s[p]>>
  ELSE matchTrailingOneDigit(s, p + 1)

\* /(\d+)\s*$/ : the leftmost position from which digits, then white space,
\* reach the end of the line; <<>> when there is no match.
RECURSIVE matchTrailing(_, _)
matchTrailing(s, p) ==
  IF p > Len(s) THEN <<>>
  ELSE LET run == digitRun(s, p)
       IN  IF run # <<>> /\ skipSpace(s, p + Len(run)) > Len(s) THEN run
           ELSE matchTrailing(s, p + 1)

\* The characters of the class [xX×:\[].
Separators == {"x", "X", "×", ":", "["}

\* /[xX×:\[]\s*(\d+)/ : the leftmost separator that white space and then a
\* digit follow; <<>> when there is no match.
RECURSIVE matchSeparator(_, _)
matchSeparator(s, p) ==
  IF p > Len(s) THEN <<>>
  ELSE LET run == digitRun(s, skipSpace(s, p + 1))
       IN  IF s[p] \in Separators /\ run # <<>> THEN run
           ELSE matchSeparator(s, p + 1)

DigitValue ==
  "0" :> 0 @@ "1" :> 1 @@ "2" :> 2 @@ "3" :> 3 @@ "4" :> 4 @@
  "5" :> 5 @@ "6" :> 6 @@ "7" :> 7 @@ "8" :> 8 @@ "9" :> 9

\* parseInt(digits, 10)
RECURSIVE parseInt(_)
parseInt(ds) ==
  IF ds = <<>> THEN 0
  ELSE parseInt(SubSeq(ds, 1, Len(ds) - 1)) * 10 + DigitValue[ds[Len(ds)]]

\* quantityOf with qty starting at 0, as parseInventory starts it.
quantityOfDefaultZero(cleanLine) ==
  LET m1 == matchTrailing(cleanLine, 1)
      m2 == matchSeparator(cleanLine, 1)
  IN  IF m1 # <<>> THEN parseInt(m1)
      ELSE IF m2 # <<>> THEN parseInt(m2)
      ELSE 0

\* qtyMatch = a.match(re1) || a.match(re2);  qty = 1 unless qtyMatch
quantityOf(cleanLine) ==
  LET m1 == matchTrailing(cleanLine, 1)
      m2 == matchSeparator(cleanLine, 1)
  IN  IF m1 # <<>> THEN parseInt(m1)
      ELSE IF m2 # <<>> THEN parseInt(m2)
      ELSE 1

\* The forEach callback: what one line pushes onto foundItems.
processLine(db, line) ==
  LET cleanLine == trim(line)
  IN  IF Len(cleanLine) < 3 THEN <<>>
      ELSE LET best == bestMatch(db, cleanLine)
           IN  IF best.bestMatchItem # null /\ Greater(best.bestScore, threshold)
               THEN << [name |-> best.bestMatchItem.name,
                        qty |-> quantityOf(cleanLine)] >>
               ELSE <<>>

\* collect keeping one record per catalog entry: a line is left out when an
\* earlier line already gave the same entry.
RECURSIVE collectOncePerEntry(_, _, _)
collectOncePerEntry(db, lines, k) ==
  IF k > Len(lines) THEN <<>>
  ELSE LET found == processLine(db, lines[k])
           Other(r) == \A j \in DOMAIN found : r.name # found[j].name
       IN  found \o SelectSeq(collectOncePerEntry(db, lines, k + 1), Other)

\* lines.forEach: the records of the lines, pushed in line order.
RECURSIVE collect(_, _, _)
collect(db, lines, k) ==
  IF k > Len(lines) THEN <<>>
  ELSE processLine(db, lines[k]) \o collect(db, lines, k + 1)

findKnownItems(db, t) == collect(db, split(t, "\n"), 1)

(***************************************************************************)
(* The texts the model hands to findKnownItems.                            *)
(***************************************************************************)
\* s with its first n characters other than spaces misread as "#".
RECURSIVE Corrupt(_, _)
Corrupt(s, n) ==
  IF s = <<>> \/ n = 0 THEN s
  ELSE IF Head(s) = " " THEN <<" ">> \o Corrupt(Tail(s), n)
  ELSE <<"#">> \o Corrupt(Tail(s), n - 1)

NameForms ==
  { Corrupt(CharsOf[n], k) : n \in ShippedNames, k \in 0..MaxTypos }
    \cup { toLowerCase(CharsOf[n]) : n \in ShippedNames }

DigitRuns == { <<"0">>, <<"7">>, <<"4", "0">>, <<"0", "1", "2">> }

\* A name form alone, and one behind an index token with a quantity.
NameLines ==
  NameForms \cup { <<"0", "1", " ">> \o f \o <<" ", "x", "4", "0">> : f \in NameForms }

\* The line "N xq" for every catalog name N and digit run q.
ExactLine(n, q) == CharsOf[n] \o <<" ", "x">> \o q

ExactLines == { ExactLine(n, q) : n \in ShippedNames, q \in DigitRuns }

\* What may stand between a name and its digits, and after them.
InputSeparators ==
  { <<>> } \cup { <<c>> : c \in {"x", "X", "×", ":", "[", "(", "<", "K"} }

QuantityForms ==
  { <<" ">> \o sep \o gap \o q \o tail :
      sep \in InputSeparators, gap \in { <<>>, <<" ">> }, q \in DigitRuns,
      tail \in { <<>>, <<")">>, <<" ", "e", "a">> } }

QuantityLines == { CharsOf["Scrap Metal"] \o f : f \in QuantityForms }

AssortdSeeds == <<"A", "s", "s", "o", "r", "t", "d", " ", "S", "e", "e", "d", "s", " ", "x", "1", "2">>

OtherLines ==
  { <<>>, <<"x", "4">>, <<" ", "a", "b", " ">>, AssortdSeeds,
    CharsOf["Scrap Metal"] \o <<" ", "x">>,
    CharsOf["Standard Ammo"] \o <<" ">> \o CharsOf["Energy Cell"] }

\* The lines that texts of several lines are put together from: accepted
\* lines, the same with a carriage return, a second entry, a line without a
\* match, one too short, and the empty line.
SampleLines ==
  { ExactLine("Scrap Metal", <<"4", "0">>),
    ExactLine("Scrap Metal", <<"7">>) \o <<"\r">>,
    CharsOf["Energy Cell"],
    <<"n", "o", " ", "s", "u", "c", "h">>,
    <<"a", "b">>,
    <<>> }

TwoLines == { a \o <<"\n">> \o b : a \in SampleLines, b \in SampleLines }

ThreeLines ==
  { ExactLine("Scrap Metal", <<"4", "0">>) \o <<"\n">> \o t : t \in TwoLines }

Texts ==
  NameLines \cup ExactLines \cup QuantityLines \cup OtherLines
    \cup TwoLines \cup ThreeLines

(***************************************************************************)
(* The App: when text changes it runs findKnownItems on it and             *)
(* classifyItems on the result.                                            *)
(***************************************************************************)
Analyze ==
  /\ stage = "text"
  /\ foundItems' = findKnownItems(ITEMS_DB, text)
  /\ rawItems' = foundItems'
  /\ classified' = classifyItems(foundItems')
  /\ calls' = calls + 1
  /\ stage' = "analyzed"
  /\ UNCHANGED <<ITEMS_DB, text, measureVars, segmenterVars,
                 kernelVars, workerVars>>

InitMatch ==
  /\ ITEMS_DB = ShippedDB
  /\ text \in Texts
  /\ foundItems = <<>>
  /\ rawItems = <<>>
  /\ classified = <<>>
  /\ calls = 0
  /\ stage = "text"
  /\ NoMeasure
  /\ NoImage
  /\ NoKernel
  /\ NoWorker

NextMatch == Analyze

SpecMatch == InitMatch /\ [][NextMatch]_vars

(***************************************************************************)
(* Claims about findKnownItems, checked under SpecMatch.                   *)
(***************************************************************************)
Analyzed == stage = "analyzed"

OneLine == \A k \in DOMAIN text : text[k] # "\n"

\* The number a digit run of the model's inputs denotes.
RunValue ==
  <<"0">> :> 0 @@ <<"7">> :> 7 @@ <<"4", "0">> :> 40 @@ <<"0", "1", "2">> :> 12

AllScores(words) ==
  UNION { { <<ITEMS_DB[n].name, score(ITEMS_DB[n], words, i)>> :
              i \in 0..(Len(words) - windowSize(ITEMS_DB[n])) } :
          n \in DOMAIN ITEMS_DB }

TrailingRun(s) ==
  LET p == CHOOSE k \in 1..(Len(s) + 1) :
             /\ \A q \in k..Len(s) : s[q] \in Digits
             /\ k = 1 \/ s[k - 1] \notin Digits
  IN  SubSeq(s, p, Len(s))

EightSeparators == {"x", "X", "×", ":", "[", "(", "<", "K"}

\* The digit runs that immediately follow one of the eight separators.
FollowingRuns(s) ==
  { digitRun(s, p + 1) :
      p \in { k \in 1..(Len(s) - 1) :
                s[k] \in EightSeparators /\ s[k + 1] \in Digits } }

\* C9: on an accepted line the quantity is the trailing digit run when there
\* is one; otherwise the digit run immediately following one of the
\* separators x, X, ×, :, [, (, <, K; otherwise 1.
C9_QuantityRule ==
  (Analyzed /\ OneLine /\ foundItems # <<>>) =>
    LET s == trim(text)
        qty == foundItems[1].qty
    IN  IF TrailingRun(s) # <<>> THEN qty = parseInt(TrailingRun(s))
        ELSE IF FollowingRuns(s) # {}
             THEN \E r \in FollowingRuns(s) : qty = parseInt(r)
             ELSE qty = 1

NoDigit == \A k \in DOMAIN text : text[k] \notin Digits

LineBreaks == { k \in DOMAIN text : text[k] = "\n" }

\* C11: each line is matched independently: for every way to cut the text at
\* a line break into t1 and t2, the records of the text are the records of t1
\* followed by the records of t2, so they are in line order and an entry
\* matched on k lines is emitted k times.
C11_LinesIndependent ==
  Analyzed =>
    \A k \in LineBreaks :
      foundItems = findKnownItems(ITEMS_DB, SubSeq(text, 1, k - 1))
                     \o findKnownItems(ITEMS_DB, SubSeq(text, k + 1, Len(text)))

\* "Scrap Metal x40" on two lines has been emitted twice.
C11_Witness ==
  /\ Analyzed
  /\ text = ExactLine("Scrap Metal", <<"4", "0">>) \o <<"\n">>
              \o ExactLine("Scrap Metal", <<"4", "0">>)
  /\ foundItems = << [name |-> "Scrap Metal", qty |-> 40],
                     [name |-> "Scrap Metal", qty |-> 40] >>

(***************************************************************************)
(* levenshtein and getSimilarity on their own: every pair of strings over  *)
(* a two-letter alphabet, up to MaxStringLen characters each.              *)
(***************************************************************************)
Alphabet == {"a", "b"}

StringsUpTo(n) == UNION { [1..k -> Alphabet] : k \in 0..n }

Measure ==
  /\ stage = "strings"
  /\ distance' = levenshtein(strings.a, strings.b)
  /\ similarity' = getSimilarity(strings.a, strings.b)
  /\ stage' = "measured"
  /\ UNCHANGED <<pipelineVars, strings, segmenterVars, kernelVars, workerVars>>

InitMeasure ==
  /\ ITEMS_DB = ShippedDB
  /\ NoText
  /\ NoImage
  /\ NoKernel
  /\ NoWorker
  /\ strings \in [a : StringsUpTo(MaxStringLen), b : StringsUpTo(MaxStringLen)]
  /\ distance = 0
  /\ similarity = Fraction(1, 1)
  /\ stage = "strings"

NextMeasure == Measure

SpecMeasure == InitMeasure /\ [][NextMeasure]_vars

(***************************************************************************)
(* Claims about levenshtein and getSimilarity, checked under SpecMeasure.  *)
(***************************************************************************)
Measured == stage = "measured"

\* The least number of single-character insertions, deletions and
\* substitutions that turn x into y, by recursion on the first characters.
RECURSIVE EditDistance(_, _)
EditDistance(x, y) ==
  IF x = <<>> THEN Len(y)
  ELSE IF y = <<>> THEN Len(x)
  ELSE Min2(EditDistance(Tail(x), y) + 1,
            Min2(EditDistance(x, Tail(y)) + 1,
                 EditDistance(Tail(x), Tail(y))
                   + (IF Head(x) = Head(y) THEN 0 ELSE 1)))

\* C18: levenshtein(a, b) is the minimum number of single-character
\* insertions, deletions and substitutions that turn a into b, so it lies
\* between 0 and max(len(a), len(b)) and the similarity lies in [0, 1].
C18_MinimumEdits ==
  Measured =>
    /\ distance = EditDistance(strings.a, strings.b)
    /\ 0 <= distance
    /\ distance <= Max2(Len(strings.a), Len(strings.b))
    /\ similarity.den > 0
    /\ 0 <= similarity.num
    /\ similarity.num <= similarity.den

\* "ab" and "baa" have been measured: two edits, similarity 1/3.
C18_Witness ==
  /\ Measured
  /\ strings = [a |-> <<"a", "b">>, b |-> <<"b", "a", "a">>]
  /\ distance = 2
  /\ similarity = Fraction(1, 3)

\* C19: levenshtein(a, b) = levenshtein(b, a) for all strings a and b, the
\* empty string included.
C19_Symmetric ==
  Measured => distance = levenshtein(strings.b, strings.a)

\* The empty string and "ab" have been measured: distance 2.
C19_Witness ==
  /\ Measured
  /\ strings = [a |-> <<>>, b |-> <<"a", "b">>]
  /\ distance = 2

\* C20: getSimilarity(s, s) = 1 for every string s: the distance is 0, and
\* for two empty strings the result is 1 without a division by zero.
C20_SelfSimilarity ==
  (Measured /\ strings.a = strings.b) =>
    /\ distance = 0
    /\ similarity.den > 0
    /\ similarity.num = similarity.den

\* Two empty strings have been measured: similarity 1.
C20_Witness ==
  /\ Measured
  /\ strings = [a |-> <<>>, b |-> <<>>]
  /\ similarity = Fraction(1, 1)

(***************************************************************************)
(* The slot segmenters.  An ImageData is [width, height, data]; data and   *)
(* every other flat array (binary, dilated, labels) is a sequence whose    *)
(* element idx + 1 is the array's element idx.  A pixel is kept as its     *)
(* [r, g, b]; alpha is never read.                                         *)
(***************************************************************************)
At(array, idx) == array[idx + 1]

\* 1000 * (0.299 * r + 0.587 * g + 0.114 * b).  For the colours of the model
\* the double the code computes is on the same side of every integer
\* threshold as this exact value.
gray(pixel) == 299 * pixel.r + 587 * pixel.g + 114 * pixel.b

\* binary[i] = gray > threshold ? 1 : 0
binarize(data, cutoff) ==
  [ i \in 1..Len(data) |-> IF gray(data[i]) > 1000 * cutoff THEN 1 ELSE 0 ]

\* windowStart over [0, radius), one pixel short.
windowStartExclusive(line, radius) ==
  Cardinality({ i \in 0..(radius - 1) : i < Len(line) /\ At(line, i) # 0 })

\* The sum of the window [0, radius] of a line, clipped to the line.
windowStart(line, radius) ==
  Cardinality({ i \in 0..radius : i < Len(line) /\ At(line, i) # 0 })

\* The body of the loop over x along one line (a row of data, or a column
\* of temp): position x is set when sum > 0, then the window moves by one.
\* The state is [sum, out].
slideStep(line, radius, x, st) ==
  LET leavingIdx == x - radius
      enteringIdx == x + radius + 1
      left == IF leavingIdx >= 0 /\ At(line, leavingIdx) # 0 THEN 1 ELSE 0
      entered == IF enteringIdx < Len(line) /\ At(line, enteringIdx) # 0
                 THEN 1 ELSE 0
  IN  [sum |-> st.sum - left + entered,
       out |-> Append(st.out, IF st.sum > 0 THEN 1 ELSE 0)]

\* The loop for x = lo, lo + 1, ..., hi in this order: the first half of the
\* range, then the second half from the state the first half left.
RECURSIVE slide(_, _, _, _, _)
slide(line, radius, lo, hi, st) ==
  IF lo > hi THEN st
  ELSE IF lo = hi THEN slideStep(line, radius, lo, st)
  ELSE CHOOSE r \in
         { slide(line, radius, ((lo + hi) \div 2) + 1, hi, half) :
             half \in {slide(line, radius, lo, (lo + hi) \div 2, st)} } : TRUE

slideLine(line, radius) ==
  slide(line, radius, 0, Len(line) - 1,
        [sum |-> windowStart(line, radius), out |-> <<>>]).out

\* 1. Horizontal Pass: temp, row by row.
horizontalPass(data, width, height, radius) ==
  [ y \in 0..(height - 1) |->
      slideLine([ x \in 1..width |-> At(data, y * width + x - 1) ], radius) ]

\* 2. Vertical Pass: reads temp, writes result, column by column.
verticalPass(temp, width, height, radius) ==
  [ x \in 0..(width - 1) |->
      slideLine([ y \in 1..height |-> temp[y - 1][x + 1] ], radius) ]

\* dilate of the dilation variant; result[y * width + x] is the element y of
\* column x.
dilate(data, width, height, radius) ==
  CHOOSE out \in
    { [ i \in 1..(width * height) |->
          result[(i - 1) % width][((i - 1) \div width) + 1] ] :
        result \in { verticalPass(temp, width, height, radius) :
                       temp \in { horizontalPass(d, width, height, radius) :
                                    d \in {data} } } } :
    TRUE

\* dilate of detectInventorySlots: every set pixel sets the kernel around it.
dilateKernel(data, width, height, kernelSize) ==
  LET offset == kernelSize \div 2
      output(d) ==
        [ i \in 1..Len(d) |->
            LET nx == (i - 1) % width
                ny == (i - 1) \div width
            IN  IF \E ky \in (-offset)..offset, kx \in (-offset)..offset :
                     /\ nx - kx >= 0 /\ nx - kx < width
                     /\ ny - ky >= 0 /\ ny - ky < height
                     /\ At(d, (ny - ky) * width + (nx - kx)) = 1
                THEN 1 ELSE 0 ]
  IN  CHOOSE out \in { output(d) : d \in {data} } : TRUE

(***************************************************************************)
(* class UnionFind: parent is an Int32Array, here a function on            *)
(* 0..size-1.                                                              *)
(***************************************************************************)
UnionFind(size) == [ i \in 0..(size - 1) |-> i ]

\* What reading a typed array outside its length gives (undefined), kept as
\* a number no index equals.
outside == -1

\* this.parent[i]
parentAt(parent, i) == IF i \in DOMAIN parent THEN parent[i] ELSE outside

\* this.parent[i] = v; a write outside the length is ignored.
parentSet(parent, i, v) ==
  IF i \in DOMAIN parent THEN [parent EXCEPT ![i] = v] ELSE parent

\* while (root !== this.parent[root]) root = this.parent[root];
RECURSIVE findRoot(_, _)
findRoot(parent, root) ==
  IF root = parentAt(parent, root) THEN root
  ELSE findRoot(parent, parentAt(parent, root))

\* Path compression: every element from curr up to the root now points to it.
RECURSIVE compress(_, _, _)
compress(parent, curr, root) ==
  IF curr = root THEN parent
  ELSE compress(parentSet(parent, curr, root), parentAt(parent, curr), root)

\* find(i): the root, and the parent array it leaves behind.
find(parent, i) ==
  LET root == findRoot(parent, i)
  IN  [root |-> root, parent |-> compress(parent, i, root)]

\* union that hangs the element i itself, not its root, under the root of j.
unionElement(parent, i, j) ==
  LET fi == find(parent, i)
      fj == find(fi.parent, j)
  IN  IF fi.root # fj.root THEN parentSet(fj.parent, i, fj.root)
      ELSE fj.parent

\* union(i, j)
union(parent, i, j) ==
  LET fi == find(parent, i)
      fj == find(fi.parent, j)
  IN  IF fi.root # fj.root THEN parentSet(fj.parent, fi.root, fj.root)
      ELSE fj.parent

\* new UnionFind(Math.ceil(size / 2) + 1)
ufSize(size) == ((size + 1) \div 2) + 1

(***************************************************************************)
(* Connected component labeling, as findItemBlobs does it in both          *)
(* variants.  The state of the first pass is [labels, nextLabel, parent].  *)
(***************************************************************************)
\* labelPixel that looks at the left neighbour only: a pixel without a left
\* neighbour's label gets a new label even under a labeled pixel.
labelPixelLeftOnly(mask, width, x, y, st) ==
  LET idx == y * width + x
      left == IF x > 0 THEN At(st.labels, idx - 1) ELSE 0
  IN  IF At(mask, idx) = 0 THEN st
      ELSE IF left = 0
           THEN [st EXCEPT !.labels[idx + 1] = st.nextLabel,
                           !.nextLabel = st.nextLabel + 1]
      ELSE [st EXCEPT !.labels[idx + 1] = left]

\* labelPixel without the union of two different neighbour labels.
labelPixelNoUnion(mask, width, x, y, st) ==
  LET idx == y * width + x
      left == IF x > 0 THEN At(st.labels, idx - 1) ELSE 0
      top == IF y > 0 THEN At(st.labels, idx - width) ELSE 0
  IN  IF At(mask, idx) = 0 THEN st
      ELSE IF left = 0 /\ top = 0
           THEN [st EXCEPT !.labels[idx + 1] = st.nextLabel,
                           !.nextLabel = st.nextLabel + 1]
      ELSE IF left # 0 /\ top = 0 THEN [st EXCEPT !.labels[idx + 1] = left]
      ELSE IF left = 0 /\ top # 0 THEN [st EXCEPT !.labels[idx + 1] = top]
      ELSE [st EXCEPT !.labels[idx + 1] = Min2(left, top)]

\* The body of the first pass for the pixel (x, y).
labelPixel(mask, width, x, y, st) ==
  LET idx == y * width + x
      left == IF x > 0 THEN At(st.labels, idx - 1) ELSE 0
      top == IF y > 0 THEN At(st.labels, idx - width) ELSE 0
  IN  IF At(mask, idx) = 0 THEN st
      ELSE IF left = 0 /\ top = 0
           THEN [st EXCEPT !.labels[idx + 1] = st.nextLabel,
                           !.nextLabel = st.nextLabel + 1]
      ELSE IF left # 0 /\ top = 0 THEN [st EXCEPT !.labels[idx + 1] = left]
      ELSE IF left = 0 /\ top # 0 THEN [st EXCEPT !.labels[idx + 1] = top]
      ELSE [st EXCEPT !.labels[idx + 1] = Min2(left, top),
                      !.parent = IF left # top THEN union(st.parent, left, top)
                                 ELSE st.parent]

\* The two loops of the first pass, for the pixels idx = lo, ..., hi in scan
\* order (idx = y * width + x): the first half of the range, then the second
\* half from the state the first half left.
RECURSIVE labelRange(_, _, _, _, _)
labelRange(mask, width, lo, hi, st) ==
  IF lo > hi THEN st
  ELSE IF lo = hi THEN labelPixel(mask, width, lo % width, lo \div width, st)
  ELSE CHOOSE r \in
         { labelRange(mask, width, ((lo + hi) \div 2) + 1, hi, half) :
             half \in {labelRange(mask, width, lo, (lo + hi) \div 2, st)} } : TRUE

firstPass(mask, width, height) ==
  CHOOSE st \in
    { labelRange(m, width, 0, width * height - 1,
                 [labels |-> [ i \in 1..(width * height) |-> 0 ],
                  nextLabel |-> 1,
                  parent |-> UnionFind(ufSize(width * height))]) :
        m \in {mask} } : TRUE

\* The blobs Map is a sequence of [root, minX, maxX, minY, maxY] in the
\* order the roots were first set, the order forEach visits them in.
blobIndex(blobs, root) ==
  IF \E k \in DOMAIN blobs : blobs[k].root = root
  THEN CHOOSE k \in DOMAIN blobs : blobs[k].root = root
  ELSE 0

\* The body of the second pass for the pixel (x, y); its state is
\* [parent, blobs].
aggregatePixel(labels, width, x, y, st) ==
  LET idx == y * width + x
      f == find(st.parent, At(labels, idx))
      k == blobIndex(st.blobs, f.root)
      blob == st.blobs[k]
  IN  IF At(labels, idx) = 0 THEN st
      ELSE IF k = 0
           THEN [parent |-> f.parent,
                 blobs |-> Append(st.blobs,
                                  [root |-> f.root, minX |-> x, maxX |-> x,
                                   minY |-> y, maxY |-> y])]
      ELSE [parent |-> f.parent,
            blobs |-> [st.blobs EXCEPT ![k] =
                         [root |-> f.root,
                          minX |-> IF x < blob.minX THEN x ELSE blob.minX,
                          maxX |-> IF x > blob.maxX THEN x ELSE blob.maxX,
                          minY |-> IF y < blob.minY THEN y ELSE blob.minY,
                          maxY |-> IF y > blob.maxY THEN y ELSE blob.maxY]]]

\* The two loops of the second pass, for the pixels lo, ..., hi in scan order.
RECURSIVE aggregateRange(_, _, _, _, _)
aggregateRange(labels, width, lo, hi, st) ==
  IF lo > hi THEN st
  ELSE IF lo = hi
       THEN aggregatePixel(labels, width, lo % width, lo \div width, st)
  ELSE CHOOSE r \in
         { aggregateRange(labels, width, ((lo + hi) \div 2) + 1, hi, half) :
             half \in {aggregateRange(labels, width, lo, (lo + hi) \div 2, st)} } :
         TRUE

\* Both passes: the blobs of a mask.
secondPass(labeled, width, height) ==
  CHOOSE blobs \in
    { aggregateRange(l.labels, width, 0, width * height - 1,
                     [parent |-> l.parent, blobs |-> <<>>]).blobs :
        l \in {labeled} } : TRUE

(***************************************************************************)
(* findItemBlobs of the dilation variant: what follows the labeling.       *)
(***************************************************************************)
Rect(x, y, w, h) == [x |-> x, y |-> y, width |-> w, height |-> h]

\* 4. Initial Rect Extraction
rectOfBlob(b) == Rect(b.minX, b.minY, b.maxX - b.minX + 1, b.maxY - b.minY + 1)

initialRects(blobs) == [ k \in DOMAIN blobs |-> rectOfBlob(blobs[k]) ]

\* The noise filter with the 30 pixels of src/logic/blobDetector.ts.
notNoiseThirty(r) == r.width >= 30 /\ r.height >= 30

\* 5. rects.filter(r => r.width >= 20 && r.height >= 20)
notNoise(r) == r.width >= 20 /\ r.height >= 20

MERGE_MARGIN == 5

Max3(u, v, w) ==
  IF u >= v /\ u >= w THEN u ELSE IF v >= w THEN v ELSE w

dx(master, candidate) ==
  Max3(0, master.x - (candidate.x + candidate.width),
       candidate.x - (master.x + master.width))

dy(master, candidate) ==
  Max3(0, master.y - (candidate.y + candidate.height),
       candidate.y - (master.y + master.height))

\* enclose that takes maxX and maxY for the last column and row, as the
\* blobs do, and adds 1 to their difference.
encloseInclusive(master, candidate) ==
  LET minX == Min2(master.x, candidate.x)
      minY == Min2(master.y, candidate.y)
      maxX == Max2(master.x + master.width, candidate.x + candidate.width)
      maxY == Max2(master.y + master.height, candidate.y + candidate.height)
  IN  Rect(minX, minY, maxX - minX + 1, maxY - minY + 1)

\* The rectangle that encloses master and candidate.
enclose(master, candidate) ==
  LET minX == Min2(master.x, candidate.x)
      minY == Min2(master.y, candidate.y)
      maxX == Max2(master.x + master.width, candidate.x + candidate.width)
      maxY == Max2(master.y + master.height, candidate.y + candidate.height)
  IN  Rect(minX, minY, maxX - minX, maxY - minY)

\* The inner loop of a pass that merges a candidate into the master and
\* leaves used[j] at 0, so that the candidate stays in the list.
RECURSIVE absorbKeepCandidate(_, _, _)
absorbKeepCandidate(rects, j, st) ==
  IF j > Len(rects) THEN st
  ELSE IF j \in st.used THEN absorbKeepCandidate(rects, j + 1, st)
  ELSE IF /\ dx(st.master, rects[j]) <= MERGE_MARGIN
          /\ dy(st.master, rects[j]) <= MERGE_MARGIN
       THEN CHOOSE r \in
              { absorbKeepCandidate(rects, j + 1, next) :
                  next \in {[master |-> enclose(st.master, rects[j]),
                             used |-> st.used,
                             changed |-> TRUE]} } : TRUE
  ELSE absorbKeepCandidate(rects, j + 1, st)

\* The inner loop over j: master takes in every unused rectangle near it.
\* The state is [master, used, changed]; used is the set of used indices.
RECURSIVE absorb(_, _, _)
absorb(rects, j, st) ==
  IF j > Len(rects) THEN st
  ELSE IF j \in st.used THEN absorb(rects, j + 1, st)
  ELSE IF /\ dx(st.master, rects[j]) <= MERGE_MARGIN
          /\ dy(st.master, rects[j]) <= MERGE_MARGIN
       THEN CHOOSE r \in
              { absorb(rects, j + 1, next) :
                  next \in {[master |-> enclose(st.master, rects[j]),
                             used |-> st.used \cup {j},
                             changed |-> TRUE]} } : TRUE
  ELSE absorb(rects, j + 1, st)

\* The outer loop over i of one pass; the state is [merged, used, changed].
RECURSIVE mergeFrom(_, _, _)
mergeFrom(rects, i, st) ==
  IF i > Len(rects) THEN st
  ELSE IF i \in st.used THEN mergeFrom(rects, i + 1, st)
  ELSE CHOOSE r \in
         { mergeFrom(rects, i + 1,
                     [merged |-> Append(st.merged, a.master),
                      used |-> a.used, changed |-> a.changed]) :
             a \in { absorb(rects, i + 1, first) :
                       first \in {[master |-> rects[i],
                                   used |-> st.used \cup {i},
                                   changed |-> st.changed]} } } : TRUE

mergePass(rects) ==
  mergeFrom(rects, 1, [merged |-> <<>>, used |-> {}, changed |-> FALSE])

\* The merge loop stopped after its first pass.
mergeLoopOnce(rects) == mergePass(rects).merged

\* while (changed) { ... rects = merged; }
RECURSIVE mergeLoop(_)
mergeLoop(rects) ==
  CHOOSE r \in
    { IF pass.changed THEN mergeLoop(pass.merged) ELSE pass.merged :
        pass \in {mergePass(rects)} } : TRUE

area(r) == r.width * r.height

\* rects.sort((a, b) => area(b) - area(a)): the sort is stable, so a
\* rectangle goes behind those of the same area that were before it.
RECURSIVE insertByArea(_, _)
insertByArea(sorted, r) ==
  IF sorted = <<>> THEN <<r>>
  ELSE IF area(r) > area(Head(sorted)) THEN <<r>> \o sorted
  ELSE <<Head(sorted)>> \o insertByArea(Tail(sorted), r)

RECURSIVE sortByArea(_)
sortByArea(rects) ==
  IF rects = <<>> THEN <<>>
  ELSE insertByArea(sortByArea(SubSeq(rects, 1, Len(rects) - 1)),
                    rects[Len(rects)])

\* inner lies inside outer, with the tolerance of the variant.
isInside(inner, outer, tolerance) ==
  /\ inner.x >= outer.x - tolerance
  /\ inner.y >= outer.y - tolerance
  /\ inner.x + inner.width <= outer.x + outer.width + tolerance
  /\ inner.y + inner.height <= outer.y + outer.height + tolerance

\* The containment filter testing a rectangle against the last retained
\* one only.
RECURSIVE pruneAgainstLast(_, _, _, _)
pruneAgainstLast(rects, i, finalRects, tolerance) ==
  IF i > Len(rects) THEN finalRects
  ELSE IF /\ finalRects # <<>>
          /\ isInside(rects[i], finalRects[Len(finalRects)], tolerance)
       THEN pruneAgainstLast(rects, i + 1, finalRects, tolerance)
  ELSE pruneAgainstLast(rects, i + 1, Append(finalRects, rects[i]), tolerance)

\* The containment filter over the sorted rectangles.
RECURSIVE prune(_, _, _, _)
prune(rects, i, finalRects, tolerance) ==
  IF i > Len(rects) THEN finalRects
  ELSE IF \E j \in DOMAIN finalRects : isInside(rects[i], finalRects[j], tolerance)
       THEN prune(rects, i + 1, finalRects, tolerance)
  ELSE prune(rects, i + 1, Append(finalRects, rects[i]), tolerance)

\* findItemBlobs of the dilation variant, as the record of its locals when it
\* returns: the next label, the length of the parent array, the blobs, the
\* rectangles after the noise filter and after the merge loop, and
\* finalRects, the value returned.
findItemBlobs(image, threshold_) ==
  LET width == image.width
      height == image.height
      run(labeled, blobs) ==
        [nextLabel |-> labeled.nextLabel,
         ufLength |-> ufSize(width * height),
         blobs |-> blobs,
         rects |-> SelectSeq(initialRects(blobs), notNoise),
         merged |-> mergeLoop(SelectSeq(initialRects(blobs), notNoise)),
         finalRects |->
           CHOOSE final \in
             { prune(sortByArea(merged), 1, <<>>, 0) :
                 merged \in {mergeLoop(SelectSeq(initialRects(blobs),
                                                 notNoise))} } : TRUE]
      labeling(labeled) ==
        CHOOSE out \in { run(labeled, blobs) :
                           blobs \in {secondPass(labeled, width, height)} } : TRUE
  IN  CHOOSE out \in
        { labeling(labeled) :
            labeled \in { firstPass(dilate(binarize(image.data, threshold_),
                                           width, height, 3),
                                    width, height) } } : TRUE

(***************************************************************************)
(* findItemBlobs of src/logic/blobDetector.ts: no dilation, no merge.      *)
(***************************************************************************)
\* [Filter 1] w < 30 || h < 30;  [Filter 2] w / h < 0.5 || w / h > 2.5
slotShaped(r) ==
  /\ ~(r.width < 30 \/ r.height < 30)
  /\ ~(2 * r.width < r.height \/ 2 * r.width > 5 * r.height)

\* The locals at the return; finalRects is the value returned.
blobDetectorFindItemBlobs(image, threshold_) ==
  LET width == image.width
      height == image.height
      run(labeled, blobs) ==
        [nextLabel |-> labeled.nextLabel,
         ufLength |-> ufSize(width * height),
         blobs |-> blobs,
         rects |-> SelectSeq(initialRects(blobs), slotShaped),
         finalRects |->
           prune(sortByArea(SelectSeq(initialRects(blobs), slotShaped)),
                 1, <<>>, 2)]
      labeling(labeled) ==
        CHOOSE out \in { run(labeled, blobs) :
                           blobs \in {secondPass(labeled, width, height)} } : TRUE
  IN  CHOOSE out \in
        { labeling(labeled) :
            labeled \in { firstPass(binarize(image.data, threshold_),
                                    width, height) } } :
        TRUE

(***************************************************************************)
(* detectInventorySlots.  Its parent is a plain array that grows with the  *)
(* labels: a function on the labels handed out so far.                     *)
(***************************************************************************)
\* const find = (x) => parent[x] === x ? x : (parent[x] = find(parent[x]))
RECURSIVE slotFind(_, _)
slotFind(parent, x) ==
  IF parent[x] = x THEN [root |-> x, parent |-> parent]
  ELSE LET f == slotFind(parent, parent[x])
       IN  [root |-> f.root, parent |-> [f.parent EXCEPT ![x] = f.root]]

\* const unite = (a, b) => { ...; if (ra !== rb) parent[rb] = ra; }
unite(parent, a, b) ==
  LET fa == slotFind(parent, a)
      fb == slotFind(fa.parent, b)
  IN  IF fa.root # fb.root THEN [fb.parent EXCEPT ![fb.root] = fa.root]
      ELSE fb.parent

\* The body of the 1-Pass loop for the pixel (x, y).
slotLabelPixel(mask, width, x, y, st) ==
  LET idx == y * width + x
      left == IF x > 0 THEN At(st.labels, idx - 1) ELSE 0
      top == IF y > 0 THEN At(st.labels, idx - width) ELSE 0
  IN  IF At(mask, idx) = 0 THEN st
      ELSE IF left = 0 /\ top = 0
           THEN [labels |-> [st.labels EXCEPT ![idx + 1] = st.nextLabel],
                 nextLabel |-> st.nextLabel + 1,
                 parent |-> [ l \in 1..st.nextLabel |->
                                IF l = st.nextLabel THEN l ELSE st.parent[l] ]]
      ELSE IF left # 0 /\ top = 0 THEN [st EXCEPT !.labels[idx + 1] = left]
      ELSE IF left = 0 /\ top # 0 THEN [st EXCEPT !.labels[idx + 1] = top]
      ELSE [st EXCEPT !.labels[idx + 1] = Min2(left, top),
                      !.parent = unite(st.parent, left, top)]

\* The two loops of the 1-Pass, for the pixels lo, ..., hi in scan order.
RECURSIVE slotLabelRange(_, _, _, _, _)
slotLabelRange(mask, width, lo, hi, st) ==
  IF lo > hi THEN st
  ELSE IF lo = hi THEN slotLabelPixel(mask, width, lo % width, lo \div width, st)
  ELSE CHOOSE r \in
         { slotLabelRange(mask, width, ((lo + hi) \div 2) + 1, hi, half) :
             half \in {slotLabelRange(mask, width, lo, (lo + hi) \div 2, st)} } :
         TRUE

slotFirstPass(mask, width, height) ==
  CHOOSE st \in
    { slotLabelRange(m, width, 0, width * height - 1,
                     [labels |-> [ i \in 1..(width * height) |-> 0 ],
                      nextLabel |-> 1,
                      parent |-> <<>>]) :
        m \in {mask} } : TRUE

\* The body of the 2-Pass loop.  A blob is [root, x, y, width, height]; until
\* the filter, width and height hold the largest x and y seen, and a new
\* blob starts with width 1 and height 1.
slotAggregatePixel(labels, width, x, y, st) ==
  LET idx == y * width + x
      f == slotFind(st.parent, At(labels, idx))
      k == blobIndex(st.blobs, f.root)
      blob == st.blobs[k]
  IN  IF At(labels, idx) = 0 THEN st
      ELSE IF k = 0
           THEN [parent |-> f.parent,
                 blobs |-> Append(st.blobs,
                                  [root |-> f.root, x |-> x, y |-> y,
                                   width |-> 1, height |-> 1])]
      ELSE [parent |-> f.parent,
            blobs |-> [st.blobs EXCEPT ![k] =
                         [root |-> f.root,
                          x |-> Min2(blob.x, x),
                          width |-> Max2(blob.width, x),
                          y |-> Min2(blob.y, y),
                          height |-> Max2(blob.height, y)]]]

\* The two loops of the 2-Pass, for the pixels lo, ..., hi in scan order.
RECURSIVE slotAggregateRange(_, _, _, _, _)
slotAggregateRange(labels, width, lo, hi, st) ==
  IF lo > hi THEN st
  ELSE IF lo = hi
       THEN slotAggregatePixel(labels, width, lo % width, lo \div width, st)
  ELSE CHOOSE r \in
         { slotAggregateRange(labels, width, ((lo + hi) \div 2) + 1, hi, half) :
             half \in {slotAggregateRange(labels, width, lo, (lo + hi) \div 2, st)} } :
         TRUE

slotSecondPass(labeled, width, height) ==
  CHOOSE blobs \in
    { slotAggregateRange(l.labels, width, 0, width * height - 1,
                          [parent |-> l.parent, blobs |-> <<>>]).blobs :
        l \in {labeled} } : TRUE

\* realX, realY, realW, realH of a blob
realRect(b) == Rect(b.x, b.y, b.width - b.x + 1, b.height - b.y + 1)

\* The slot filter without its ceiling on the area.
isValidSlotNoCeiling(r, width, height) ==
  /\ ~(1000 * (r.width * r.height) < 5 * (width * height))
  /\ ~(5 * r.width < 2 * r.height \/ r.width > 3 * r.height)
  /\ ~(r.x <= 2 \/ r.y <= 2
         \/ r.x + r.width >= width - 2 \/ r.y + r.height >= height - 2)

\* The blobs forEach pushes onto validSlots: area within minArea = 0.005 *
\* size and maxArea = 0.3 * size, aspect within 0.4 and 3.0, and more than
\* margin = 2 away from every edge.
isValidSlot(r, width, height) ==
  /\ ~(1000 * area(r) < 5 * (width * height) \/ 10 * area(r) > 3 * (width * height))
  /\ ~(5 * r.width < 2 * r.height \/ r.width > 3 * r.height)
  /\ ~(r.x <= 2 \/ r.y <= 2
         \/ r.x + r.width >= width - 2 \/ r.y + r.height >= height - 2)

validSlots(blobs, width, height) ==
  LET Valid(r) == isValidSlot(r, width, height)
  IN  SelectSeq([ k \in DOMAIN blobs |-> realRect(blobs[k]) ], Valid)

\* The comparator of validSlots.sort: its sign.  yDiff < height * 0.05
compareSlots(a, b, height) ==
  LET yDiff == IF a.y >= b.y THEN a.y - b.y ELSE b.y - a.y
  IN  IF 20 * yDiff < height THEN a.x - b.x ELSE a.y - b.y

\* The comparator orders the slots consistently: equal-ranked slots form
\* classes, and the classes are strictly ordered.
isConsistent(slots, height) ==
  LET S == { slots[k] : k \in DOMAIN slots }
      lt(a, b) == compareSlots(a, b, height) < 0
      eq(a, b) == compareSlots(a, b, height) = 0
  IN  /\ \A a \in S, b \in S : lt(a, b) <=> compareSlots(b, a, height) > 0
      /\ \A a \in S, b \in S, c \in S :
           /\ (lt(a, b) /\ lt(b, c)) => lt(a, c)
           /\ (eq(a, b) /\ eq(b, c)) => eq(a, c)
           /\ (eq(a, b) /\ lt(b, c)) => lt(a, c)
           /\ (lt(a, b) /\ eq(b, c)) => lt(a, c)

RECURSIVE insertSlot(_, _, _)
insertSlot(sorted, r, height) ==
  IF sorted = <<>> THEN <<r>>
  ELSE IF compareSlots(r, Head(sorted), height) < 0 THEN <<r>> \o sorted
  ELSE <<Head(sorted)>> \o insertSlot(Tail(sorted), r, height)

RECURSIVE sortSlots(_, _)
sortSlots(slots, height) ==
  IF slots = <<>> THEN <<>>
  ELSE insertSlot(sortSlots(SubSeq(slots, 1, Len(slots) - 1), height),
                  slots[Len(slots)], height)

orderings(slots) ==
  { [ k \in DOMAIN slots |-> slots[p[k]] ] :
      p \in { q \in [DOMAIN slots -> DOMAIN slots] :
                \A i \in DOMAIN slots, j \in DOMAIN slots : q[i] = q[j] => i = j } }

\* What validSlots.sort can leave: the stable sorted order when the
\* comparator is consistent on the slots; otherwise the order is up to the
\* implementation, any permutation.
sortOutcomes(slots, height) ==
  IF isConsistent(slots, height) THEN {sortSlots(slots, height)}
  ELSE orderings(slots)

\* The threshold of detectInventorySlots: const th = 45.
th == 45

\* detectInventorySlots up to its sort, as the record of its locals; the
\* parameter _threshold is not read.
detectInventorySlots(image, _threshold) ==
  LET width == image.width
      height == image.height
      labeling(labeled) ==
        CHOOSE out \in
          { [nextLabel |-> labeled.nextLabel, blobs |-> blobs,
             validSlots |-> validSlots(blobs, width, height)] :
              blobs \in {slotSecondPass(labeled, width, height)} } : TRUE
  IN  CHOOSE out \in
        { labeling(labeled) :
            labeled \in { slotFirstPass(dilateKernel(binarize(image.data, th),
                                                     width, height, 3),
                                        width, height) } } : TRUE

(***************************************************************************)
(* The images and thresholds the model hands to the segmenters.            *)
(***************************************************************************)
Black == [r |-> 0, g |-> 0, b |-> 0]

White == [r |-> 255, g |-> 255, b |-> 255]

\* Luminance 48: above th = 45, below the default threshold 50.
Dim == [r |-> 48, g |-> 48, b |-> 48]

\* Luminance 29.07, mean of the channels 85.
Blue == [r |-> 0, g |-> 0, b |-> 255]

\* The image of the given size whose pixels inside one of the rectangles
\* have the colour and whose other pixels are black.
ImageOf(width, height, rects, colour) ==
  [width |-> width, height |-> height,
   data |-> [ i \in 1..(width * height) |->
                LET x == (i - 1) % width
                    y == (i - 1) \div width
                IN  IF \E r \in rects : /\ r.x <= x /\ x < r.x + r.width
                                        /\ r.y <= y /\ y < r.y + r.height
                    THEN colour ELSE Black ]]

\* Every black-and-white image of a near-square shape of at most MaxPixels
\* pixels.
SmallShapes ==
  { wh \in (1..MaxPixels) \X (1..MaxPixels) :
      /\ wh[1] * wh[2] <= MaxPixels
      /\ wh[1] - wh[2] \in {-1, 0, 1} }

SmallImages ==
  UNION { { [width |-> wh[1], height |-> wh[2], data |-> d] :
              d \in [1..(wh[1] * wh[2]) -> {Black, White}] } :
          wh \in SmallShapes }

\* One bright square of the given side, the given distance from the left and
\* top borders and from the right and bottom ones.
OneSquare(side, before, after, colour) ==
  ImageOf(before + side + after, before + side + after,
          {Rect(before, before, side, side)}, colour)

\* The square of 50 x 50 pixels at (100, 100).
FiftySquare == ImageOf(153, 153, {Rect(100, 100, 50, 50)}, White)

SquareImages ==
  { OneSquare(side, before, 3, White) : side \in {10, 13, 14, 15}, before \in {3, 5} }
    \cup { OneSquare(17, 0, 3, White), OneSquare(14, 3, 3, Dim),
           OneSquare(14, 3, 3, Blue), FiftySquare }

\* Two bright squares side by side (or one above the other), gap pixels
\* apart, 3 pixels from the borders.
TwoSquares(side, gap, upright) ==
  IF upright
  THEN ImageOf(side + 6, 2 * side + gap + 6,
               {Rect(3, 3, side, side), Rect(3, 3 + side + gap, side, side)}, White)
  ELSE ImageOf(2 * side + gap + 6, side + 6,
               {Rect(3, 3, side, side), Rect(3 + side + gap, 3, side, side)}, White)

\* Three squares in a row, each one pixel lower than the one found before
\* it: the left one, then the right one, then the one between them, which is
\* near both.
ThreeSquares ==
  ImageOf(71, 22, {Rect(3, 3, 14, 14), Rect(51, 4, 14, 14), Rect(27, 5, 14, 14)},
          White)

TwoSquareImages ==
  { TwoSquares(20, 3, FALSE), ThreeSquares }
    \cup { TwoSquares(14, gap, upright) :
             gap \in {7, MaxGap - 1, MaxGap}, upright \in BOOLEAN }

\* One white pixel somewhere in a black image of SlotSide x SlotSide pixels.
PointImages ==
  { ImageOf(SlotSide, SlotSide, {Rect(x, y, 1, 1)}, White) :
      x \in 0..(SlotSide - 1), y \in 0..(SlotSide - 1) }

\* White pixels that make slots of 3 x 3 pixels in an image 21 pixels high,
\* where slots whose y differ by 1 count as one row: two slots in one row,
\* two in different rows, and three going down to the left step by step.
Points(ps) == { Rect(p[1], p[2], 1, 1) : p \in ps }

RowImages ==
  { ImageOf(17, 21, Points({<<8, 4>>, <<4, 5>>}), White),
    ImageOf(17, 21, Points({<<4, 4>>, <<8, 4>>, <<12, 4>>}), White),
    ImageOf(17, 21, Points({<<8, 4>>, <<4, 9>>}), White),
    ImageOf(17, 21, Points({<<12, 4>>, <<8, 5>>, <<4, 6>>}), White) }

\* Images whose one or two components, dilated by one pixel, have a
\* bounding box at or next to a limit of the slot filter: 10 x 12 = 30% and
\* 11 x 11 > 30% of 20 x 20; 3 x 3 = 0.5% of 30 x 60 and < 0.5% of 30 x 61;
\* 4 x 10 and 9 x 3 at the ends of the aspect band; and a slot of 3 x 3 next
\* to a bar of 3 x 10, which is too narrow.
BandImages ==
  { ImageOf(20, 20, {Rect(6, 5, 8, 10)}, White),
    ImageOf(20, 20, {Rect(5, 5, 9, 9)}, White),
    ImageOf(30, 60, {Rect(10, 10, 1, 1)}, White),
    ImageOf(30, 61, {Rect(10, 10, 1, 1)}, White),
    ImageOf(20, 20, {Rect(6, 5, 2, 8)}, White),
    ImageOf(20, 20, {Rect(5, 6, 7, 1)}, White),
    ImageOf(20, 20, {Rect(5, 6, 8, 1)}, White),
    ImageOf(40, 40, {Rect(5, 5, 1, 1), Rect(20, 10, 1, 8)}, White) }

\* The images that every threshold is tried on.
ProbeImages ==
  { ImageOf(3, 3, {}, White),
    ImageOf(3, 3, {Rect(0, 0, 1, 1), Rect(2, 0, 1, 1), Rect(1, 1, 1, 1),
                   Rect(0, 2, 1, 1), Rect(2, 2, 1, 1)}, White),
    ImageOf(SlotSide, SlotSide, {Rect(4, 4, 1, 1)}, White),
    ImageOf(SlotSide, SlotSide, {Rect(4, 4, 1, 1)}, Dim),
    OneSquare(14, 3, 3, White),
    OneSquare(14, 3, 3, Dim) }

\* Below every luminance, between the colours, and at and above the top.
Thresholds == {-1, 0, 45, 254, 255, 300}

SegmenterInputs ==
  { [image |-> i, threshold |-> 50] :
      i \in SmallImages \cup SquareImages \cup TwoSquareImages
              \cup PointImages \cup RowImages \cup BandImages }
    \cup { [image |-> i, threshold |-> t] : i \in ProbeImages, t \in Thresholds }

(***************************************************************************)
(* The segmenters as operations: each takes the image and the threshold    *)
(* and returns its regions.                                                *)
(***************************************************************************)
FindItemBlobs ==
  /\ stage = "image"
  /\ locals' = findItemBlobs(imageData, thresholdArg)
  /\ regions' = locals'.finalRects
  /\ stage' = "findItemBlobs"
  /\ UNCHANGED <<pipelineVars, measureVars, imageData, thresholdArg,
                 kernelVars, workerVars>>

BlobDetectorFindItemBlobs ==
  /\ stage = "image"
  /\ locals' = blobDetectorFindItemBlobs(imageData, thresholdArg)
  /\ regions' = locals'.finalRects
  /\ stage' = "blobDetector"
  /\ UNCHANGED <<pipelineVars, measureVars, imageData, thresholdArg,
                 kernelVars, workerVars>>

DetectInventorySlots ==
  /\ stage = "image"
  /\ locals' = detectInventorySlots(imageData, thresholdArg)
  /\ regions' \in sortOutcomes(locals'.validSlots, imageData.height)
  /\ stage' = "detectInventorySlots"
  /\ UNCHANGED <<pipelineVars, measureVars, imageData, thresholdArg,
                 kernelVars, workerVars>>

InitSegment ==
  /\ ITEMS_DB = ShippedDB
  /\ NoText
  /\ NoMeasure
  /\ NoKernel
  /\ NoWorker
  /\ \E in \in SegmenterInputs :
       /\ imageData = in.image
       /\ thresholdArg = in.threshold
  /\ regions = <<>>
  /\ locals = <<>>
  /\ stage = "image"

NextSegment == FindItemBlobs \/ BlobDetectorFindItemBlobs \/ DetectInventorySlots

SpecSegment == InitSegment /\ [][NextSegment]_vars

(***************************************************************************)
(* Claims about the segmenters, checked under SpecSegment.                 *)
(***************************************************************************)
\* The pixel's luminance exceeds the threshold the caller passed.
Exceeds(pixel) == gray(pixel) > 1000 * thresholdArg

NoBrightPixel == \A i \in DOMAIN imageData.data : ~Exceeds(imageData.data[i])

\* C12: whenever no pixel's luminance exceeds the threshold passed by the
\* caller, findItemBlobs and detectInventorySlots return the empty list: the
\* mask is decided by the caller's threshold.
C12_EmptyBelowThreshold ==
  (stage \in {"findItemBlobs", "detectInventorySlots"} /\ NoBrightPixel) =>
    regions = <<>>

CeilHalf(n) == (n + 1) \div 2

\* C13: for every mask the first labeling pass hands out at most
\* ceil(width * height / 2) labels, so every label passed to union or find
\* is an index of the parent array of ceil(width * height / 2) + 1 elements.
C13_LabelsFitParent ==
  stage \in {"findItemBlobs", "blobDetector"} =>
    /\ locals.nextLabel - 1 <= CeilHalf(imageData.width * imageData.height)
    /\ locals.ufLength = CeilHalf(imageData.width * imageData.height) + 1
    /\ \A label \in 1..(locals.nextLabel - 1) : label < locals.ufLength

\* The checkerboard of 3 x 3 pixels has been given 5 labels, the most the
\* parent array of 6 elements takes.
C13_Witness ==
  /\ stage = "blobDetector"
  /\ imageData.width = 3
  /\ imageData.height = 3
  /\ locals.nextLabel = 6
  /\ locals.ufLength = 6

\* C14: every region a segmenter returns has width >= 1 and height >= 1 and
\* lies inside the image.
C14_RegionsInsideImage ==
  stage \in {"findItemBlobs", "blobDetector", "detectInventorySlots"} =>
    \A k \in DOMAIN regions :
      /\ regions[k].width >= 1
      /\ regions[k].height >= 1
      /\ regions[k].x >= 0
      /\ regions[k].y >= 0
      /\ regions[k].x + regions[k].width <= imageData.width
      /\ regions[k].y + regions[k].height <= imageData.height

\* Two dilated squares that reach three borders have been merged into the
\* region that is the whole image.
C14_Witness ==
  /\ stage = "findItemBlobs"
  /\ Len(locals.rects) = 2
  /\ regions = <<Rect(0, 0, imageData.width, imageData.height)>>

\* The least and the greatest element of a non-empty set of numbers.
Least(S) == CHOOSE v \in S : \A u \in S : v <= u

Greatest(S) == CHOOSE v \in S : \A u \in S : v >= u

\* The bright pixels of the image, as indices into data.
Bright == { i \in DOMAIN imageData.data : Exceeds(imageData.data[i]) }

\* The box around the bright pixels B (there is at least one).
BoxAround(B) ==
  LET xs == { (i - 1) % imageData.width : i \in B }
      ys == { (i - 1) \div imageData.width : i \in B }
  IN  Rect(Least(xs), Least(ys),
           Greatest(xs) - Least(xs) + 1, Greatest(ys) - Least(ys) + 1)

\* The squares of the image: the box around its bright pixels when these
\* fill it, the box is a square at least the dilation radius away from every
\* border and of at least minSide pixels, and every other pixel is black.
SolidSquares(minSide) ==
  { box \in { BoxAround(B) : B \in {Bright} \ {{}} } :
      /\ box.width = box.height
      /\ box.width >= minSide
      /\ box.x >= 3
      /\ box.y >= 3
      /\ box.x + box.width <= imageData.width - 3
      /\ box.y + box.height <= imageData.height - 3
      /\ \A i \in DOMAIN imageData.data :
           LET x == (i - 1) % imageData.width
               y == (i - 1) \div imageData.width
               inBox == /\ x >= box.x
                        /\ x < box.x + box.width
                        /\ y >= box.y
                        /\ y < box.y + box.height
           IN  IF inBox THEN Exceeds(imageData.data[i])
               ELSE imageData.data[i] = Black }

Near(u, v) == u - v \in (-3)..3

\* There is exactly one region, each edge within 3 pixels of the square's.
OneRegionAround(box) ==
  /\ Len(regions) = 1
  /\ Near(regions[1].x, box.x)
  /\ Near(regions[1].y, box.y)
  /\ Near(regions[1].x + regions[1].width, box.x + box.width)
  /\ Near(regions[1].y + regions[1].height, box.y + box.height)

\* C15, as stated: for an image with exactly one solid bright square on
\* black, at least 3 pixels from every border, findItemBlobs returns exactly
\* one region, each edge within 3 pixels of the square's edge.
C15_OneRegionPerSquare ==
  stage = "findItemBlobs" =>
    \A box \in SolidSquares(1) : OneRegionAround(box)

\* C15, amended: the same for a square of at least 14 x 14 pixels, which the
\* dilation brings to the 20 pixels the noise filter asks for.
C15_OneRegionPerSquareOfFourteen ==
  stage = "findItemBlobs" =>
    \A box \in SolidSquares(14) : OneRegionAround(box)

\* The square of 50 x 50 at (100, 100) has come out as the region
\* (97, 97, 56, 56).
C15_Witness ==
  /\ stage = "findItemBlobs"
  /\ imageData.width = 153
  /\ imageData = FiftySquare
  /\ SolidSquares(14) = {Rect(100, 100, 50, 50)}
  /\ regions = <<Rect(97, 97, 56, 56)>>

\* The horizontal and the vertical gap between two rectangles, 0 when they
\* overlap in that direction.
HorizontalGap(a, b) == Max3(0, a.x - (b.x + b.width), b.x - (a.x + a.width))

VerticalGap(a, b) == Max3(0, a.y - (b.y + b.height), b.y - (a.y + a.height))

\* C16: when the merge step of findItemBlobs ends, no two remaining
\* rectangles have both their horizontal and their vertical gap <= 5, and two
\* squares of 20 x 20, 3 pixels apart, come out as one region spanning both.
C16_MergeFixedPoint ==
  stage = "findItemBlobs" =>
    /\ \A i \in DOMAIN locals.merged, j \in DOMAIN locals.merged :
         i # j => ~(/\ HorizontalGap(locals.merged[i], locals.merged[j]) <= 5
                    /\ VerticalGap(locals.merged[i], locals.merged[j]) <= 5)
    /\ (imageData.width = 49 /\ imageData = TwoSquares(20, 3, FALSE)) =>
         /\ Len(regions) = 1
         /\ regions[1].x <= 3
         /\ regions[1].y <= 3
         /\ regions[1].x + regions[1].width >= 46
         /\ regions[1].y + regions[1].height >= 23

\* Three rectangles went into the merge loop and one came out: the first
\* pass merged the left and the middle one, the second pass the right one.
C16_Witness ==
  /\ stage = "findItemBlobs"
  /\ imageData.width = 71
  /\ imageData = ThreeSquares
  /\ Len(locals.rects) = 3
  /\ Len(locals.merged) = 1

\* Two regions count as one row: their y differ by less than 5% of the
\* image height.
SameRow(a, b) ==
  20 * (IF a.y >= b.y THEN a.y - b.y ELSE b.y - a.y) < imageData.height

\* C17: the list detectInventorySlots returns is in reading order for every
\* pair: if a comes before b, then they are in the same row and a.x <= b.x,
\* or they are in different rows and a is above b.
C17_ReadingOrder ==
  stage = "detectInventorySlots" =>
    \A i \in DOMAIN regions, j \in DOMAIN regions :
      i < j =>
        \/ SameRow(regions[i], regions[j]) /\ regions[i].x <= regions[j].x
        \/ ~SameRow(regions[i], regions[j]) /\ regions[i].y < regions[j].y

(***************************************************************************)
(* The two dilations on their own: every mask of at most MaxPixels pixels, *)
(* rows and columns shorter than the radius included, and every radius up  *)
(* to MaxRadius.                                                           *)
(***************************************************************************)
MaskShapes ==
  { sh \in (1..MaxPixels) \X (1..MaxPixels) : sh[1] * sh[2] <= MaxPixels }

Masks ==
  UNION { { [width |-> sh[1], height |-> sh[2], data |-> d] :
              d \in [1..(sh[1] * sh[2]) -> {0, 1}] } : sh \in MaskShapes }

\* dilate(binary, width, height, radius) of the dilation variant.
Dilate ==
  /\ stage = "mask"
  /\ dilated' = dilate(maskArg.data, maskArg.width, maskArg.height, radiusArg)
  /\ stage' = "dilate"
  /\ UNCHANGED <<pipelineVars, measureVars, segmenterVars, workerVars,
                 maskArg, radiusArg, ufParent, lastCall>>

\* dilate(binary, width, height, kernelSize) of detectInventorySlots.
DilateKernel ==
  /\ stage = "mask"
  /\ dilated' = dilateKernel(maskArg.data, maskArg.width, maskArg.height,
                             2 * radiusArg + 1)
  /\ stage' = "dilateKernel"
  /\ UNCHANGED <<pipelineVars, measureVars, segmenterVars, workerVars,
                 maskArg, radiusArg, ufParent, lastCall>>

InitDilate ==
  /\ ITEMS_DB = ShippedDB
  /\ NoText
  /\ NoMeasure
  /\ NoImage
  /\ NoWorker
  /\ maskArg \in Masks
  /\ radiusArg \in 0..MaxRadius
  /\ dilated = <<>>
  /\ ufParent = <<>>
  /\ lastCall = <<>>
  /\ stage = "mask"

NextDilate == Dilate \/ DilateKernel

SpecDilate == InitDilate /\ [][NextDilate]_vars

\* Some pixel of the mask within radiusArg of (x, y) in both directions is 1.
SetNearby(x, y) ==
  \E i \in DOMAIN maskArg.data :
    /\ maskArg.data[i] = 1
    /\ ((i - 1) % maskArg.width) - x \in (-radiusArg)..radiusArg
    /\ ((i - 1) \div maskArg.width) - y \in (-radiusArg)..radiusArg

\* C23: the sliding-window dilate computes exactly the square dilation:
\* output pixel (x, y) is 1 if and only if some input pixel inside the image
\* within r of it in x and in y is 1; so it agrees with the kernel dilation
\* of kernel size 2r + 1, for every mask and size, also below the radius.
C23_SquareDilation ==
  stage = "dilate" =>
    /\ Len(dilated) = maskArg.width * maskArg.height
    /\ \A i \in DOMAIN dilated :
         dilated[i] =
           IF SetNearby((i - 1) % maskArg.width, (i - 1) \div maskArg.width)
           THEN 1 ELSE 0
    /\ dilated = dilateKernel(maskArg.data, maskArg.width, maskArg.height,
                              2 * radiusArg + 1)

\* A column one pixel wide, narrower than the radius 3, with only its top
\* pixel set: the dilation has set the four pixels within 3 of it.
C23_Witness ==
  /\ stage = "dilate"
  /\ radiusArg = 3
  /\ maskArg = [width |-> 1, height |-> 6, data |-> <<1, 0, 0, 0, 0, 0>>]
  /\ dilated = <<1, 1, 1, 1, 0, 0>>

(***************************************************************************)
(* The union-find structures on their own: the class UnionFind of the      *)
(* dilation variant over the elements 0 .. MaxElements - 1, and the parent *)
(* array with find and unite of detectInventorySlots over the labels       *)
(* 1 .. MaxElements, under every sequence of calls.  lastCall keeps the    *)
(* call, what it returned and the parent array it started from.            *)
(***************************************************************************)
Call(op, i, j, result, before) ==
  [op |-> op, i |-> i, j |-> j, result |-> result, before |-> before]

\* uf.find(i)
Find ==
  /\ stage = "UnionFind"
  /\ \E i \in DOMAIN ufParent :
       /\ ufParent' = find(ufParent, i).parent
       /\ lastCall' = Call("find", i, i, find(ufParent, i).root, ufParent)
  /\ UNCHANGED <<pipelineVars, stage, measureVars, segmenterVars, workerVars,
                 maskArg, radiusArg, dilated>>

\* uf.union(i, j)
Union ==
  /\ stage = "UnionFind"
  /\ \E i \in DOMAIN ufParent, j \in DOMAIN ufParent :
       /\ ufParent' = union(ufParent, i, j)
       /\ lastCall' = Call("union", i, j, outside, ufParent)
  /\ UNCHANGED <<pipelineVars, stage, measureVars, segmenterVars, workerVars,
                 maskArg, radiusArg, dilated>>

\* find(x) of detectInventorySlots
SlotFind ==
  /\ stage = "parent"
  /\ \E x \in DOMAIN ufParent :
       /\ ufParent' = slotFind(ufParent, x).parent
       /\ lastCall' = Call("find", x, x, slotFind(ufParent, x).root, ufParent)
  /\ UNCHANGED <<pipelineVars, stage, measureVars, segmenterVars, workerVars,
                 maskArg, radiusArg, dilated>>

\* unite(a, b) of detectInventorySlots
Unite ==
  /\ stage = "parent"
  /\ \E a \in DOMAIN ufParent, b \in DOMAIN ufParent :
       /\ ufParent' = unite(ufParent, a, b)
       /\ lastCall' = Call("union", a, b, outside, ufParent)
  /\ UNCHANGED <<pipelineVars, stage, measureVars, segmenterVars, workerVars,
                 maskArg, radiusArg, dilated>>

InitUnionFind ==
  /\ ITEMS_DB = ShippedDB
  /\ NoText
  /\ NoMeasure
  /\ NoImage
  /\ NoWorker
  /\ maskArg = [width |-> 0, height |-> 0, data |-> <<>>]
  /\ radiusArg = 0
  /\ dilated = <<>>
  /\ lastCall = <<>>
  /\ \/ stage = "UnionFind" /\ ufParent = UnionFind(MaxElements)
     \/ stage = "parent" /\ ufParent = [ l \in 1..MaxElements |-> l ]

NextUnionFind == Find \/ Union \/ SlotFind \/ Unite

SpecUnionFind == InitUnionFind /\ [][NextUnionFind]_vars

\* Where following p from e ends within n steps: an element that is its own
\* parent, or outside when there is none that near.
RECURSIVE Climb(_, _, _)
Climb(p, e, n) ==
  IF p[e] = e THEN e
  ELSE IF n = 0 THEN outside
  ELSE Climb(p, p[e], n - 1)

RootIn(p, e) == Climb(p, e, Cardinality(DOMAIN p))

Forest(p) ==
  \A e \in DOMAIN p : p[e] \in DOMAIN p /\ RootIn(p, e) # outside

SameSet(p, a, b) == RootIn(p, a) = RootIn(p, b)

\* C24: after any sequence of union and find calls the parent array is a
\* forest; find(i) returns the root of i and its path compression moves no
\* element to another set; union(i, j) merges exactly the sets of i and j
\* and no other.
C24_UnionFindForest ==
  stage \in {"UnionFind", "parent"} =>
    /\ Forest(ufParent)
    /\ lastCall # <<>> =>
         /\ lastCall.op = "find" =>
              /\ lastCall.result = RootIn(lastCall.before, lastCall.i)
              /\ \A e \in DOMAIN ufParent :
                   RootIn(ufParent, e) = RootIn(lastCall.before, e)
         /\ lastCall.op = "union" =>
              \A a \in DOMAIN ufParent, b \in DOMAIN ufParent :
                SameSet(ufParent, a, b) <=>
                  \/ SameSet(lastCall.before, a, b)
                  \/ /\ \/ SameSet(lastCall.before, a, lastCall.i)
                        \/ SameSet(lastCall.before, a, lastCall.j)
                     /\ \/ SameSet(lastCall.before, b, lastCall.i)
                        \/ SameSet(lastCall.before, b, lastCall.j)

\* find(0) on the chain 0 -> 1 -> 2 has returned 2 and left 0 pointing at 2,
\* with 3 still alone.
C24_Witness ==
  /\ stage = "UnionFind"
  /\ lastCall # <<>>
  /\ lastCall.op = "find"
  /\ lastCall.i = 0
  /\ lastCall.before = [ e \in 0..(Cardinality(DOMAIN ufParent) - 1) |->
                           IF e < 2 THEN e + 1 ELSE e ]
  /\ lastCall.result = 2
  /\ ufParent[0] = 2

(***************************************************************************)
(* The two labeling passes on their own (steps 3 of the dilation variant   *)
(* and 2 of blobDetector.ts, which are the same code), on every mask of at *)
(* most MaxPixels pixels and on a comb and a spiral.                       *)
(***************************************************************************)
Comb ==
  [width |-> 5, height |-> 3,
   data |-> <<1, 0, 1, 0, 1,
              1, 0, 1, 0, 1,
              1, 1, 1, 1, 1>>]

Spiral ==
  [width |-> 5, height |-> 5,
   data |-> <<1, 1, 1, 1, 1,
              0, 0, 0, 0, 1,
              1, 1, 1, 0, 1,
              1, 0, 0, 0, 1,
              1, 1, 1, 1, 1>>]

Stairs ==
  [width |-> 4, height |-> 4,
   data |-> <<0, 0, 0, 1,
              0, 0, 1, 1,
              0, 1, 1, 0,
              1, 1, 0, 1>>]

LabelMasks == Masks \cup {Comb, Spiral, Stairs}

\* Pass 1 and pass 2: the labels, the root each pixel's label resolves to
\* (0 for background) and the blobs map.
Label ==
  /\ stage = "labeling"
  /\ \E labeled \in {firstPass(maskArg.data, maskArg.width, maskArg.height)} :
       locals' =
         [labels |-> labeled.labels,
          nextLabel |-> labeled.nextLabel,
          roots |-> [ i \in DOMAIN labeled.labels |->
                        IF labeled.labels[i] = 0 THEN 0
                        ELSE find(labeled.parent, labeled.labels[i]).root ],
          blobs |-> secondPass(labeled, maskArg.width, maskArg.height)]
  /\ stage' = "labeled"
  /\ UNCHANGED <<pipelineVars, measureVars, workerVars, kernelVars,
                 imageData, thresholdArg, regions>>

InitLabel ==
  /\ ITEMS_DB = ShippedDB
  /\ NoText
  /\ NoMeasure
  /\ NoImage
  /\ NoWorker
  /\ maskArg \in LabelMasks
  /\ radiusArg = 0
  /\ dilated = <<>>
  /\ ufParent = <<>>
  /\ lastCall = <<>>
  /\ stage = "labeling"

NextLabel == Label

SpecLabel == InitLabel /\ [][NextLabel]_vars

Foreground == { i \in DOMAIN maskArg.data : maskArg.data[i] = 1 }

\* The foreground pixels that are 4-neighbours of a pixel of S.
Neighbours(S) ==
  { i \in Foreground :
      \E k \in S :
        \/ i = k - maskArg.width
        \/ i = k + maskArg.width
        \/ i = k - 1 /\ (k - 1) % maskArg.width # 0
        \/ i = k + 1 /\ k % maskArg.width # 0 }

\* The foreground pixels a path of 4-neighbour foreground pixels joins to S.
RECURSIVE Reach(_)
Reach(S) ==
  IF Neighbours(S) \subseteq S THEN S
  ELSE CHOOSE R \in { Reach(T) : T \in {S \cup Neighbours(S)} } : TRUE

Components == { Reach({i}) : i \in Foreground }

Xs(S) == { (i - 1) % maskArg.width : i \in S }

Ys(S) == { (i - 1) \div maskArg.width : i \in S }

\* C22: after the two labeling passes two foreground pixels resolve to the
\* same root if and only if a path of 4-neighbour foreground pixels joins
\* them; the blob map holds exactly one entry per 4-connected component and
\* its box is the exact minimum and maximum x and y of the component.
C22_LabelsAreComponents ==
  stage = "labeled" =>
    /\ \A i \in DOMAIN maskArg.data :
         locals.roots[i] # 0 <=> i \in Foreground
    /\ \A C \in Components :
         \A a \in C, b \in Foreground :
           locals.roots[a] = locals.roots[b] <=> b \in C
    /\ Len(locals.blobs) = Cardinality(Components)
    /\ \A C \in Components :
         \E k \in DOMAIN locals.blobs :
           /\ \A a \in C : locals.roots[a] = locals.blobs[k].root
           /\ locals.blobs[k].minX = Least(Xs(C))
           /\ locals.blobs[k].maxX = Greatest(Xs(C))
           /\ locals.blobs[k].minY = Least(Ys(C))
           /\ locals.blobs[k].maxY = Greatest(Ys(C))

\* The comb: three teeth got three labels, the bottom row united them, and
\* the blob map holds the one component with the box of the whole mask.
C22_Witness ==
  /\ stage = "labeled"
  /\ maskArg = Comb
  /\ locals.nextLabel = 4
  /\ locals.blobs = <<[root |-> locals.roots[1], minX |-> 0, maxX |-> 4,
                       minY |-> 0, maxY |-> 2]>>

(***************************************************************************)
(* findItemBlobs of the dilation variant step by step: the rectangles      *)
(* (steps 1 to 5), the passes of the merge loop (step 6), the containment  *)
(* filter (step 7).  regions is the variable rects of the code, locals     *)
(* holds changed, the number of passes made, the length of rects when the  *)
(* loop was entered and its length before the last pass.                   *)
(***************************************************************************)
\* n squares of 14 x 14 in a row, gaps[k] pixels between square k and the
\* next, square k lowered by offsets[k] pixels: the labeling finds them from
\* the highest to the lowest.
RECURSIVE SquareAt(_, _, _)
SquareAt(offsets, gaps, k) ==
  IF k = 1 THEN Rect(3, 3 + offsets[1], 14, 14)
  ELSE Rect(SquareAt(offsets, gaps, k - 1).x + 14 + gaps[k - 1],
            3 + offsets[k], 14, 14)

SquareRow(offsets, gaps) ==
  LET n == Len(offsets)
  IN  ImageOf(SquareAt(offsets, gaps, n).x + 14 + 3, 3 + 14 + n + 3,
              { SquareAt(offsets, gaps, k) : k \in 1..n }, White)

Orders(n) ==
  { o \in [1..n -> 0..(n - 1)] : \A a \in 1..n, b \in 1..n : o[a] = o[b] => a = b }

MergeImages ==
  TwoSquareImages
    \cup UNION { { SquareRow(o, g) : o \in Orders(n),
                                     g \in [1..(n - 1) -> {7, MaxGap}] } :
                 n \in 1..MaxSquares }

MergeState(changed, passes, start, previous) ==
  [changed |-> changed, passes |-> passes, start |-> start,
   previous |-> previous]

\* Steps 1 to 5, and let changed = true.
ExtractRects ==
  /\ stage = "extract"
  /\ \E labeled \in { firstPass(dilate(binarize(imageData.data, thresholdArg),
                                       imageData.width, imageData.height, 3),
                                imageData.width, imageData.height) } :
       regions' = SelectSeq(initialRects(secondPass(labeled, imageData.width,
                                                    imageData.height)),
                            notNoise)
  /\ locals' = MergeState(TRUE, 0, Len(regions'), Len(regions'))
  /\ stage' = "merging"
  /\ UNCHANGED <<pipelineVars, measureVars, imageData, thresholdArg,
                 kernelVars, workerVars>>

\* One iteration of while (changed).
MergePass ==
  /\ stage = "merging"
  /\ locals.changed
  /\ \E pass \in {mergePass(regions)} :
       /\ regions' = pass.merged
       /\ locals' = MergeState(pass.changed, locals.passes + 1, locals.start,
                               Len(regions))
  /\ UNCHANGED <<pipelineVars, measureVars, imageData, thresholdArg, stage,
                 kernelVars, workerVars>>

\* The loop has ended: step 7 and return finalRects.
ContainmentFilter ==
  /\ stage = "merging"
  /\ ~locals.changed
  /\ regions' = prune(sortByArea(regions), 1, <<>>, 0)
  /\ stage' = "returned"
  /\ UNCHANGED <<pipelineVars, measureVars, imageData, thresholdArg, locals,
                 kernelVars, workerVars>>

InitMerge ==
  /\ ITEMS_DB = ShippedDB
  /\ NoText
  /\ NoMeasure
  /\ NoKernel
  /\ NoWorker
  /\ imageData \in MergeImages
  /\ thresholdArg = 50
  /\ regions = <<>>
  /\ locals = <<>>
  /\ stage = "extract"

NextMerge == ExtractRects \/ MergePass \/ ContainmentFilter

\* The loop is synchronous code: once entered, its next pass, or the code
\* after it, runs.
SpecMerge ==
  /\ InitMerge
  /\ [][NextMerge]_vars
  /\ WF_vars(MergePass)
  /\ WF_vars(ContainmentFilter)

\* The passes that merged something.
MergingPasses ==
  IF locals.passes > 0 /\ ~locals.changed THEN locals.passes - 1
  ELSE locals.passes

\* C25: the merge loop terminates for every list of rectangles: every pass
\* that merges strictly lowers the number of rectangles, so a list of n
\* rectangles needs at most n - 1 merging passes before a pass without a
\* merge ends the loop.
C25_MergeTerminates ==
  /\ [](stage \in {"merging", "returned"} =>
          /\ (locals.passes > 0 /\ locals.changed) =>
               Len(regions) < locals.previous
          /\ MergingPasses <= Max2(0, locals.start - 1))
  /\ (stage = "merging") ~> (stage = "returned")

\* Three rectangles entered the loop and it took two merging passes and the
\* closing pass to make them one.
C25_Witness ==
  /\ stage = "returned"
  /\ locals.start = 3
  /\ locals.passes = 3
  /\ Len(regions) = 1

(***************************************************************************)
(* The slot filter of detectInventorySlots, checked under SpecSegment.     *)
(***************************************************************************)
ImageArea == imageData.width * imageData.height

BoxArea(r) == r.width * r.height

\* width / height is below 0.4 or above 3.0
OutsideAspectBand(r) == 5 * r.width < 2 * r.height \/ r.width > 3 * r.height

\* C27 as stated: no returned slot has an area of at most 0.5% or of at
\* least 30% of the image, or an aspect below 0.4 or above 3.0.
C27_SlotsInsideOpenBand ==
  stage = "detectInventorySlots" =>
    \A k \in DOMAIN regions :
      /\ ~(1000 * BoxArea(regions[k]) <= 5 * ImageArea)
      /\ ~(10 * BoxArea(regions[k]) >= 3 * ImageArea)
      /\ ~OutsideAspectBand(regions[k])

\* C27: no returned slot has an area below 0.5% or above 30% of the image,
\* or an aspect below 0.4 or above 3.0; a slot at a limit is returned.
C27_SlotsInsideClosedBand ==
  stage = "detectInventorySlots" =>
    \A k \in DOMAIN regions :
      /\ ~(1000 * BoxArea(regions[k]) < 5 * ImageArea)
      /\ ~(10 * BoxArea(regions[k]) > 3 * ImageArea)
      /\ ~OutsideAspectBand(regions[k])

\* Of two components the filter dropped the bar and returned the slot.
C27_Witness ==
  /\ stage = "detectInventorySlots"
  /\ imageData.width = 40
  /\ Len(locals.blobs) = 2
  /\ regions = <<Rect(4, 4, 3, 3)>>

(***************************************************************************)
(* The containment filter on its own: steps 4 of blobDetector.ts and of    *)
(* the dilation variant, applied to every list of at most MaxRects         *)
(* rectangles of four sizes at three offsets.                              *)
(***************************************************************************)
MaxRects == 3

RectSizes == {<<34, 34>>, <<30, 35>>, <<32, 32>>, <<40, 40>>}

RectPool ==
  { Rect(o, o, wh[1], wh[2]) : o \in {0, 2, 4}, wh \in RectSizes }

RectLists == UNION { [1..n -> RectPool] : n \in 0..MaxRects }

\* rects.sort(...) and the loop that fills finalRects, tolerance 2.
BlobDetectorContainment ==
  /\ stage = "rects"
  /\ regions' = prune(sortByArea(locals.rects), 1, <<>>, 2)
  /\ stage' = "blobDetectorPruned"
  /\ UNCHANGED <<pipelineVars, measureVars, imageData, thresholdArg, locals,
                 kernelVars, workerVars>>

\* The same step of the dilation variant, tolerance 0.
DilationContainment ==
  /\ stage = "rects"
  /\ regions' = prune(sortByArea(locals.rects), 1, <<>>, 0)
  /\ stage' = "dilationPruned"
  /\ UNCHANGED <<pipelineVars, measureVars, imageData, thresholdArg, locals,
                 kernelVars, workerVars>>

InitPrune ==
  /\ ITEMS_DB = ShippedDB
  /\ NoText
  /\ NoMeasure
  /\ NoKernel
  /\ NoWorker
  /\ imageData = [width |-> 0, height |-> 0, data |-> <<>>]
  /\ thresholdArg = 0
  /\ regions = <<>>
  /\ \E l \in RectLists : locals = [rects |-> l]
  /\ stage = "rects"

NextPrune == BlobDetectorContainment \/ DilationContainment

SpecPrune == InitPrune /\ [][NextPrune]_vars

\* The tolerance of the variant that pruned.
Tolerance == IF stage = "blobDetectorPruned" THEN 2 ELSE 0

Pruned == stage \in {"blobDetectorPruned", "dilationPruned"}

\* a lies inside b when b is widened by t pixels on every side.
Within(a, b, t) ==
  /\ b.x - t <= a.x
  /\ b.y - t <= a.y
  /\ a.x + a.width <= b.x + b.width + t
  /\ a.y + a.height <= b.y + b.height + t

\* C26 as stated: no returned rectangle lies inside another returned one
\* within the tolerance of the variant.
C26_NoneInsideAnother ==
  Pruned =>
    \A i, j \in DOMAIN regions :
      i # j => ~Within(regions[i], regions[j], Tolerance)

\* C26: no returned rectangle lies, within the tolerance of the variant,
\* inside a rectangle returned before it, which has at least its area; with
\* tolerance 0 none lies inside any other returned rectangle.
C26_NoneInsideEarlier ==
  Pruned =>
    /\ \A i, j \in DOMAIN regions :
         i < j => /\ BoxArea(regions[i]) >= BoxArea(regions[j])
                  /\ ~Within(regions[j], regions[i], Tolerance)
    /\ Tolerance = 0 =>
         \A i, j \in DOMAIN regions :
           i # j => ~Within(regions[i], regions[j], 0)

\* Of three rectangles the third lay within 2 pixels inside the first, not
\* inside the second, and was dropped.
C26_Witness ==
  /\ stage = "blobDetectorPruned"
  /\ locals.rects = <<Rect(0, 0, 40, 40), Rect(4, 4, 40, 40), Rect(0, 0, 34, 34)>>
  /\ regions = <<Rect(0, 0, 40, 40), Rect(4, 4, 40, 40)>>

(***************************************************************************)
(* parseInventory, src/logic/stringUtils.ts: the strict recognizer.  The   *)
(* name of a record it emits is a sequence of characters.  No line of the  *)
(* model has a line terminator inside it, so . matches every character.    *)
(***************************************************************************)
\* The characters \w matches; \W matches every other character.
WordChars ==
  DOMAIN LowerCaseOf \cup { LowerCaseOf[c] : c \in DOMAIN LowerCaseOf }
    \cup Digits \cup {"_"}

\* The class [xX×«(\[<K] of mainPattern.
MainSeparators == {"x", "X", "×", "«", "(", "[", "<", "K"}

\* The class of the glyphs (R), (C) and TM; "TM" stands for the one character
\* U+2122.
Glyphs == {"®", "©", "TM"}

NoMatch == [name |-> <<>>, digits |-> <<>>]

\* \s*([xX×«(\[<K])\s*(\d+)\s*$ from position p: group 3, or <<>>.
mainRest(s, p) ==
  LET q == skipSpace(s, p)
      d == skipSpace(s, q + 1)
      run == digitRun(s, d)
  IN  IF /\ q <= Len(s)
         /\ s[q] \in MainSeparators
         /\ run # <<>>
         /\ skipSpace(s, d + Len(run)) > Len(s)
      THEN run ELSE <<>>

\* \s+(\d+)\s*$ from position p: group 2, or <<>>.
fallbackRest(s, p) ==
  LET d == skipSpace(s, p)
      run == digitRun(s, d)
  IN  IF d > p /\ run # <<>> /\ skipSpace(s, d + Len(run)) > Len(s)
      THEN run ELSE <<>>

\* cleanLine.match(mainPattern): the lazy group 1 is the shortest prefix of
\* p characters that the rest of the pattern can follow to the end.
RECURSIVE matchMain(_, _)
matchMain(s, p) ==
  IF p > Len(s) THEN NoMatch
  ELSE IF mainRest(s, p + 1) # <<>>
       THEN [name |-> SubSeq(s, 1, p), digits |-> mainRest(s, p + 1)]
  ELSE matchMain(s, p + 1)

\* cleanLine.match(fallbackPattern)
RECURSIVE matchFallback(_, _)
matchFallback(s, p) ==
  IF p > Len(s) THEN NoMatch
  ELSE IF fallbackRest(s, p + 1) # <<>>
       THEN [name |-> SubSeq(s, 1, p), digits |-> fallbackRest(s, p + 1)]
  ELSE matchFallback(s, p + 1)

\* /^\d+\/\d+/
isFraction(s) ==
  LET run == digitRun(s, 1)
  IN  /\ run # <<>>
      /\ Len(run) + 2 <= Len(s)
      /\ s[Len(run) + 1] = "/"
      /\ s[Len(run) + 2] \in Digits

\* /^[0-9\W]+$/
onlyDigitsAndSymbols(s) ==
  /\ s # <<>>
  /\ \A i \in 1..Len(s) : s[i] \in Digits \/ s[i] \notin WordChars

\* /^A\s+\d+/ and /^EB\s+\d+/ : the letters, white space, a digit.
lettersThenNumber(s, letters) ==
  LET p == Len(letters) + 1
      d == skipSpace(s, p)
  IN  /\ Len(s) >= Len(letters)
      /\ SubSeq(s, 1, Len(letters)) = letters
      /\ d > p
      /\ d <= Len(s)
      /\ s[d] \in Digits

\* ignorePatterns.some(p => p.test(cleanLine))
isIgnored(s) ==
  \/ isFraction(s)
  \/ onlyDigitsAndSymbols(s)
  \/ lettersThenNumber(s, <<"A">>)
  \/ lettersThenNumber(s, <<"E", "B">>)

\* cleanLine.replace(/^\d+\s+/, '')
stripIndex(s) ==
  LET run == digitRun(s, 1)
      q == skipSpace(s, Len(run) + 1)
  IN  IF run # <<>> /\ q > Len(run) + 1 THEN SubSeq(s, q, Len(s)) ELSE s

isGlyphFree(c) == c \notin Glyphs

\* cleanLine.replace(/[(R)(C)TM]/g, '') with the three glyphs in the class
stripGlyphs(s) == SelectSeq(s, isGlyphFree)

\* name.replace(/[:\-]+$/, '')
RECURSIVE stripTrailingMarks(_)
stripTrailingMarks(s) ==
  IF s # <<>> /\ s[Len(s)] \in {":", "-"}
  THEN stripTrailingMarks(SubSeq(s, 1, Len(s) - 1)) ELSE s

\* match || matchFallback, with name and qty left '' and 0 without a match.
matchShape(cleanLine) ==
  IF matchMain(cleanLine, 1) # NoMatch THEN matchMain(cleanLine, 1)
  ELSE matchFallback(cleanLine, 1)

\* The body of the for loop: the records one line pushes onto items.
parseLine(line) ==
  IF trim(line) = <<>> \/ isIgnored(trim(line)) THEN <<>>
  ELSE LET m == matchShape(stripGlyphs(stripIndex(trim(line))))
           refined == trim(stripTrailingMarks(trim(m.name)))
       IN  IF trim(m.name) # <<>> /\ Len(refined) > 2
           THEN <<[name |-> refined, qty |-> parseInt(m.digits)]>>
           ELSE <<>>

RECURSIVE parseLines(_, _)
parseLines(lines, k) ==
  IF k > Len(lines) THEN <<>>
  ELSE parseLine(lines[k]) \o parseLines(lines, k + 1)

parseInventory(t) == parseLines(split(t, "\n"), 1)

(***************************************************************************)
(* The lines the model hands to parseInventory: an optional index token,   *)
(* a name, a separator form (or white space alone) and a digit run; and    *)
(* lines that lack the name, the quantity or the white space between.      *)
(***************************************************************************)
ParseNames ==
  { CharsOf["Scrap Metal"],
    CharsOf["High-Caliber Ammo"],
    <<"A", "r", "c", "®", " ", "C", "e", "l", "l">>,
    <<"W", "a", "x">>,
    <<"A", "m", "m", "o", " ", "B", "o", "x">>,
    <<"M", "k">> }

\* What stands between the name and the digits; <<" ">> is "Name quantity".
ShapeForms ==
  { <<" ">>, <<" ", "\t">> }
    \cup { <<" ", c>> : c \in MainSeparators }
    \cup { <<" ", "x", " ">>, <<"x">>, <<"K">> }

IndexTokens == { <<>>, <<"0", "1", " ">> }

ShapedLine(index, n, form, q) == index \o n \o form \o q

ShapedLines ==
  { ShapedLine(i, n, f, q) :
      i \in IndexTokens, n \in ParseNames, f \in ShapeForms, q \in DigitRuns }

ShapelessLines ==
  { <<>>,
    <<" ", " ">>,
    CharsOf["Scrap Metal"],
    CharsOf["Scrap Metal"] \o <<" ", "x">>,
    CharsOf["Scrap Metal"] \o <<"1", "0">>,
    <<"1", "2", " ">> \o CharsOf["Scrap Metal"],
    <<"x", "1", "0">>,
    <<"1", "0">>,
    <<"4", "8", "6", "/", "5", "0", "0">>,
    <<"-", "-", " ", "7">> }

NoiseLines ==
  { <<"A", " ", "4", "8", "6">>,
    <<"E", "B", " ", "1", "2">>,
    <<"A", " ", "1", "2", " ", "G", "a", "u", "g", "e", " ", "x", "5">> }

ParseLines == ShapedLines \cup ShapelessLines \cup NoiseLines

ParseTexts ==
  ParseLines
    \cup { a \o <<"\n">> \o b : a \in NoiseLines \cup ShapelessLines,
                                b \in {ExactLine("Scrap Metal", <<"7">>)} }

ParseInventory ==
  /\ stage = "text"
  /\ rawItems' = parseInventory(text)
  /\ stage' = "parsed"
  /\ UNCHANGED <<ITEMS_DB, classified, calls, text, foundItems, measureVars,
                 segmenterVars, kernelVars, workerVars>>

InitParse ==
  /\ ITEMS_DB = ShippedDB
  /\ text \in ParseTexts
  /\ foundItems = <<>>
  /\ rawItems = <<>>
  /\ classified = <<>>
  /\ calls = 0
  /\ stage = "text"
  /\ NoMeasure
  /\ NoImage
  /\ NoKernel
  /\ NoWorker

NextParse == ParseInventory

SpecParse == InitParse /\ [][NextParse]_vars

(***************************************************************************)
(* Claims about parseInventory, checked under SpecParse.                   *)
(***************************************************************************)
\* C21: a line "Name <separator> quantity" or "Name quantity" that is not a
\* noise line and whose Name has at least 3 characters gives exactly one
\* record, with the whole Name (index token and trademark glyphs removed)
\* and the number; a line without the shape gives no record.
C21_StrictRecognizer ==
  stage = "parsed" =>
    /\ \A i \in IndexTokens, n \in ParseNames, f \in ShapeForms,
          q \in DigitRuns :
         ( /\ text = ShapedLine(i, n, f, q)
           /\ Len(n) >= 3
           /\ ~isIgnored(text) )
         => rawItems = <<[name |-> stripGlyphs(n), qty |-> parseInt(q)]>>
    /\ text \in ShapelessLines => rawItems = <<>>

(***************************************************************************)
(* The vision worker, src/worker.ts, and the hook that starts it,          *)
(* src/hooks/useAiVision.ts.  A message is a record of the fields that are *)
(* read by the other side; a field a message does not have reads           *)
(* "undefined".  A call of self.onmessage runs until its first await of a  *)
(* promise that is still pending; the calls that are waiting are in tasks, *)
(* each with the promise it waits for: pipeline(...) with device webgpu or *)
(* cpu, or classifier(...).                                                *)
(***************************************************************************)
MaxAnalyses == 2

\* What the hook posts.
Request(type, id) == [type |-> type, id |-> id]

\* What the worker posts: { id, status, ... }, no type.
Reply(id, st) == [type |-> "undefined", id |-> id, status |-> st]

Task(m, at) == [type |-> m.type, id |-> m.id, at |-> at]

Without(s, k) == SubSeq(s, 1, k - 1) \o SubSeq(s, k + 1, Len(s))

unchangedOutsideWorker ==
  UNCHANGED <<pipelineVars, stage, measureVars, segmenterVars, kernelVars>>

\* useEffect on mount: new Worker(new URL('../worker.ts', ...)), onmessage
\* is set, and { type: 'load' } is posted.
Mount ==
  /\ workerRef = "null"
  /\ workerRef' = "worker"
  /\ inbox' = Append(inbox, Request("load", "undefined"))
  /\ UNCHANGED <<instance, pipelines, tasks, outbox, status, readers, analyses>>
  /\ unchangedOutsideWorker

\* The cleanup of the effect: worker.terminate() discards the worker with
\* everything it has not delivered.
Unmount ==
  /\ workerRef = "worker"
  /\ workerRef' = "terminated"
  /\ inbox' = <<>>
  /\ tasks' = <<>>
  /\ outbox' = <<>>
  /\ UNCHANGED <<instance, pipelines, status, readers, analyses>>
  /\ unchangedOutsideWorker

\* analyzeImage(file): setStatus('analyzing') and reader.readAsDataURL(file)
AnalyzeImage ==
  /\ workerRef = "worker"
  /\ analyses < MaxAnalyses
  /\ status' = "analyzing"
  /\ analyses' = analyses + 1
  /\ readers' = readers \cup {analyses + 1}
  /\ UNCHANGED <<instance, pipelines, inbox, tasks, outbox, workerRef>>
  /\ unchangedOutsideWorker

\* reader.onload: workerRef.current?.postMessage({ type: 'analyze', ... });
\* a terminated worker takes no message.
ReaderLoad ==
  \E id \in readers :
    /\ readers' = readers \ {id}
    /\ inbox' = IF workerRef = "worker"
                THEN Append(inbox, Request("analyze", id)) ELSE inbox
    /\ UNCHANGED <<instance, pipelines, tasks, outbox, status, workerRef,
                   analyses>>
    /\ unchangedOutsideWorker

\* self.onmessage up to its first pending promise.  getInstance with the
\* instance set returns it at once; with no instance it calls pipeline(...)
\* with device webgpu and waits.
Dispatch ==
  /\ workerRef = "worker"
  /\ inbox # <<>>
  /\ inbox' = Tail(inbox)
  /\ IF instance = "null"
     THEN /\ tasks' = Append(tasks, Task(Head(inbox), "webgpu"))
          /\ outbox' = outbox
     ELSE IF Head(inbox).type = "init"
     THEN /\ tasks' = tasks
          /\ outbox' = Append(outbox, Reply(Head(inbox).id, "ready"))
     ELSE /\ tasks' = Append(tasks, Task(Head(inbox), "classifier"))
          /\ outbox' = outbox
  /\ UNCHANGED <<instance, pipelines, status, workerRef, readers, analyses>>
  /\ unchangedOutsideWorker

\* pipeline(...) resolves: this.instance is assigned and getInstance returns.
PipelineResolves ==
  \E k \in DOMAIN tasks :
    /\ tasks[k].at \in {"webgpu", "cpu"}
    /\ instance' = "pipeline"
    /\ pipelines' = pipelines + 1
    /\ IF tasks[k].type = "init"
       THEN /\ tasks' = Without(tasks, k)
            /\ outbox' = Append(outbox, Reply(tasks[k].id, "ready"))
       ELSE /\ tasks' = [tasks EXCEPT ![k].at = "classifier"]
            /\ outbox' = outbox
    /\ UNCHANGED <<inbox, status, workerRef, readers, analyses>>
    /\ unchangedOutsideWorker

\* pipeline(...) rejects: with webgpu the catch falls back to cpu; with cpu
\* getInstance throws and the handler posts status 'error'.
PipelineRejects ==
  \E k \in DOMAIN tasks :
    /\ tasks[k].at \in {"webgpu", "cpu"}
    /\ IF tasks[k].at = "webgpu"
       THEN /\ tasks' = [tasks EXCEPT ![k].at = "cpu"]
            /\ outbox' = outbox
       ELSE /\ tasks' = Without(tasks, k)
            /\ outbox' = Append(outbox, Reply(tasks[k].id, "error"))
    /\ UNCHANGED <<instance, pipelines, inbox, status, workerRef, readers,
                   analyses>>
    /\ unchangedOutsideWorker

\* classifier(image, labelsToCheck) resolves: status 'success' is posted.
ClassifierResolves ==
  \E k \in DOMAIN tasks :
    /\ tasks[k].at = "classifier"
    /\ tasks' = Without(tasks, k)
    /\ outbox' = Append(outbox, Reply(tasks[k].id, "success"))
    /\ UNCHANGED <<instance, pipelines, inbox, status, workerRef, readers,
                   analyses>>
    /\ unchangedOutsideWorker

\* classifier(image, labelsToCheck) rejects: status 'error' is posted.
ClassifierRejects ==
  \E k \in DOMAIN tasks :
    /\ tasks[k].at = "classifier"
    /\ tasks' = Without(tasks, k)
    /\ outbox' = Append(outbox, Reply(tasks[k].id, "error"))
    /\ UNCHANGED <<instance, pipelines, inbox, status, workerRef, readers,
                   analyses>>
    /\ unchangedOutsideWorker

\* worker.onmessage of the hook: the status that e.data.type selects.
statusAfter(current, type) ==
  CASE type = "progress" -> "loading_model"
    [] type = "ready" -> "ready"
    [] type = "result" -> "ready"
    [] type = "error" -> "error"
    [] OTHER -> current

Deliver ==
  /\ workerRef = "worker"
  /\ outbox # <<>>
  /\ outbox' = Tail(outbox)
  /\ status' = statusAfter(status, Head(outbox).type)
  /\ UNCHANGED <<instance, pipelines, inbox, tasks, workerRef, readers,
                 analyses>>
  /\ unchangedOutsideWorker

InitWorker ==
  /\ ITEMS_DB = ShippedDB
  /\ NoText
  /\ NoMeasure
  /\ NoImage
  /\ NoKernel
  /\ NoWorker
  /\ stage = "hook"

NextWorker ==
  \/ Mount
  \/ Unmount
  \/ AnalyzeImage
  \/ ReaderLoad
  \/ Dispatch
  \/ PipelineResolves
  \/ PipelineRejects
  \/ ClassifierResolves
  \/ ClassifierRejects
  \/ Deliver

SpecWorker == InitWorker /\ [][NextWorker]_vars

(***************************************************************************)
(* Claims about the worker and the hook, checked under SpecWorker.         *)
(***************************************************************************)
\* C29: the worker constructs the model pipeline at most once, whatever the
\* order in which messages arrive and promises settle.
C29_OnePipeline == pipelines <= 1

\* Nothing is in flight between the hook and the worker, and no call of the
\* worker's handler is waiting.
Settled ==
  /\ workerRef = "worker"
  /\ inbox = <<>>
  /\ tasks = <<>>
  /\ outbox = <<>>
  /\ readers = {}

\* C30: once the load request the hook posted on mount has been handled and
\* the worker's answer delivered, the status is no longer 'idle'.
C30_StatusLeavesIdle == Settled => status # "idle"

====
